---- MODULE Spec2Model ----
(***************************************************************************)
(* Model of youtrack_sdk.helpers: deep_update, obj_to_dict and             *)
(* model_to_field_names, as pure functions applied to bounded inputs.      *)
(*                                                                         *)
(* Python values are tagged records [t |-> <runtime type>, v |-> payload]. *)
(* A dict is an insertion-ordered sequence of <<key, value>> pairs, a list *)
(* and a tuple are sequences.  An exception raised by a call is the value  *)
(* [t |-> <exception class>, ...] returned in place of the result.         *)
(***************************************************************************)
EXTENDS Integers, Sequences, FiniteSets, TLC

VARIABLES
    dest, mappings, merged,     \* a call of deep_update and its outcome
    obj, tupleDump, dumped,     \* a call of obj_to_dict and its outcome
    model, fieldsDict, fieldNames,  \* a call of model_to_field_names, its
                                    \* merged field tree and its outcome
    target, response, unionMode, decoded,    \* a decoding: the type decoded to, the
                                    \* parsed response, the way the installed
                                    \* pydantic takes a union, the outcome
    payload, encoded,           \* a call of custom_json_dumps and its outcome
    calls,                      \* what each of the calls of obj_to_dict and of
                                \* obj_to_json on one instance has returned
    client, operation, reply,   \* a Client, the operation called on it, what
    requests, received,         \* the transport does with a request, the
    returned,                   \* requests it was given, what _send_request
                                \* gives, what the caller gets
    heap, held, updated,        \* the objects of the interpreter, the objects
                                \* given to a call of deep_update, what the
                                \* call gives
    definitions, frames, walked \* the definitions of a JSON schema, the calls
                                \* of model_to_fields in progress, how the
                                \* walk has ended

\* The variables of the calls that come after custom_json_dumps.
clientVars == <<client, operation, reply, requests, received, returned>>
\* The variables of a call of deep_update on objects.
heapVars == <<heap, held, updated>>
\* The variables of the walk of model_to_fields through a schema.
walkVars == <<definitions, frames, walked>>
otherVars == <<calls, clientVars, heapVars, walkVars>>
vars ==
    <<dest, mappings, merged, obj, tupleDump, dumped, model, fieldsDict, fieldNames,
      target, response, unionMode, decoded, payload, encoded, otherVars>>

\* ----------------------------------------------------------------- values

NoneV == [t |-> "NoneType"]
IntV(n) == [t |-> "int", v |-> n]
StrV(s) == [t |-> "str", v |-> s]
DictV(items) == [t |-> "dict", v |-> items]
ListV(xs) == [t |-> "list", v |-> xs]
TupleV(xs) == [t |-> "tuple", v |-> xs]

\* The call has not been made yet.
Pending == [t |-> "pending"]

\* helpers.py:20 and helpers.py:28: the two TypeErrors deep_update raises itself.
\* Their messages name the key and the two types, or the two lengths.
TypeMismatch(key, dtype, stype) ==
    [t |-> "TypeError", why |-> "type", key |-> key, dst |-> dtype, src |-> stype]
LengthMismatch(key, dlen, slen) ==
    [t |-> "TypeError", why |-> "length", key |-> key, dst |-> dlen, src |-> slen]
\* `source.items()` on a value that is no dict (helpers.py:18).
NoItems == [t |-> "AttributeError", why |-> "items"]
\* `key in result` / `result[key] = value` on a result that is no dict
\* (helpers.py:19, helpers.py:34): the interpreter's own TypeError.
NotSubscriptable == [t |-> "TypeError", why |-> "builtin"]

IsError(x) == x.t \in {"TypeError", "AttributeError"}

\* dict operations on the pair sequence
Keys(items) == {items[i][1] : i \in 1..Len(items)}
HasKey(items, k) == k \in Keys(items)
Get(items, k) == items[CHOOSE i \in 1..Len(items) : items[i][1] = k][2]
Put(items, k, x) ==
    IF HasKey(items, k)
    THEN [i \in 1..Len(items) |-> IF items[i][1] = k THEN <<k, x>> ELSE items[i]]
    ELSE Append(items, <<k, x>>)

\* ------------------------------------------------------------ deep_update

\* Body applied to the value of v, v worked out once and before Body.
With(v, Body(_)) == CHOOSE r \in {Body(x) : x \in {v}} : TRUE

RECURSIVE deep_update(_, _)
RECURSIVE update_key(_, _, _)
RECURSIVE accumulate(_, _, _)
RECURSIVE merge_lists(_, _)

\* helpers.py:32: list(starmap(deep_update, zip(result[key], value))); zip
\* ends with the shorter list, and the first element pair that raises aborts
\* the rest.
merge_lists(xs, ys) ==
    IF xs = <<>> \/ ys = <<>> THEN ListV(<<>>)
    ELSE With(deep_update(Head(xs), <<Head(ys)>>), LAMBDA h :
              IF IsError(h) THEN h
              ELSE With(merge_lists(Tail(xs), Tail(ys)), LAMBDA r :
                        IF IsError(r) THEN r ELSE ListV(<<h>> \o r.v)))

\* helpers.py:19: type(result[key]) != type(value).
types_differ_never(old, value) == FALSE
types_differ_by_shape(old, value) ==
    \/ old.t # value.t
    \/ old.t = "dict" /\ (old.v = <<>>) # (value.v = <<>>)
types_differ(old, value) == old.t # value.t

\* helpers.py:27: len(result[key]) != len(value).
lengths_differ_never(old, value) == FALSE
lengths_differ(old, value) == Len(old.v) # Len(value.v)

\* helpers.py:25: the value a key with a mapping on both sides takes.
merge_dict_overwrite(old, value) == value
merge_dict(old, value) == deep_update(old, <<value>>)

\* helpers.py:19-34: the body of the loop over source.items(), for one
\* (key, value) and the accumulated result, a dict.
update_key(result, key, value) ==
    LET has == HasKey(result.v, key)
        old == Get(result.v, key)
    IN  IF has /\ types_differ(old, value) THEN TypeMismatch(key, old.t, value.t)
        ELSE IF has /\ value.t = "dict"
        THEN With(merge_dict(old, value), LAMBDA r :
                  IF IsError(r) THEN r ELSE DictV(Put(result.v, key, r)))
        ELSE IF has /\ value.t = "list"
        THEN IF lengths_differ(old, value)
             THEN LengthMismatch(key, Len(old.v), Len(value.v))
             ELSE With(merge_lists(old.v, value.v), LAMBDA r :
                       IF IsError(r) THEN r ELSE DictV(Put(result.v, key, r)))
        ELSE DictV(Put(result.v, key, value))

\* helpers.py:18-34: the first n items of `source` applied to `result`, in
\* the order of source.items(); an exception ends the loop.
accumulate(result, items, n) ==
    IF n = 0 THEN result
    ELSE With(accumulate(result, items, n - 1), LAMBDA acc :
              IF IsError(acc) THEN acc
              ELSE IF acc.t # "dict" THEN NotSubscriptable
              ELSE update_key(acc, items[n][1], items[n][2]))

\* helpers.py:17-34: one source mapping applied to the accumulated result.
update_from(result, source) ==
    IF source.t # "dict" THEN NoItems
    ELSE accumulate(result, source.v, Len(source.v))

\* helpers.py:10-36: deep_update(dest, *mappings); `ms` is the sequence of
\* the mappings.  deepcopy(dest) is dest as a value.
deep_update(d, ms) ==
    IF ms = <<>> THEN d
    ELSE With(update_from(d, Head(ms)), LAMBDA r :
              IF IsError(r) THEN r ELSE deep_update(r, Tail(ms)))

\* ------------------------------------------------------------ obj_to_dict

BoolV(b) == [t |-> "bool", v |-> b]
\* A model instance: its class and its fields in declaration order, each
\* [alias, set, val]: `set` says the field is in model_fields_set, `val` is
\* the value the instance holds (the schema default when the field is unset).
ModelV(cls, fields) == [t |-> "model", cls |-> cls, v |-> fields]
\* A constructor argument that is not given.
Unset == [t |-> "unset"]

\* test_converters.py:12-28: the fields of the three entity classes, each
\* with its name, its wire name (alias) and its default.
Schema(cls) ==
    CASE cls = "SimpleModel" ->
           << [name |-> "type", alias |-> "$type", default |-> StrV("SimpleModel")],
              [name |-> "flag", alias |-> "flag", default |-> NoneV],
              [name |-> "short_name", alias |-> "shortName", default |-> NoneV],
              [name |-> "value", alias |-> "value", default |-> NoneV] >>
      [] cls = "NestedModel" ->
           << [name |-> "type", alias |-> "$type", default |-> StrV("NestedModel")],
              [name |-> "source", alias |-> "source", default |-> NoneV],
              [name |-> "dest", alias |-> "dest", default |-> NoneV] >>
      [] cls = "NestedSequenceModel" ->
           << [name |-> "type", alias |-> "$type", default |-> StrV("NestedSequenceModel")],
              [name |-> "items", alias |-> "items", default |-> NoneV],
              [name |-> "stocks", alias |-> "stocks", default |-> NoneV] >>

\* cls.model_construct(**args) (test_converters.py:44): a given field is
\* set to the argument, any other resolves to its default and stays unset.
model_construct(cls, args) ==
    ModelV(cls,
           [i \in 1..Len(Schema(cls)) |->
               LET f == Schema(cls)[i]
               IN  IF args[f.name] = Unset
                   THEN [alias |-> f.alias, set |-> FALSE, val |-> f.default]
                   ELSE [alias |-> f.alias, set |-> TRUE, val |-> args[f.name]]])

RECURSIVE model_dump(_, _, _)

\* helpers.py:92-93: obj.model_dump(by_alias=True, exclude_unset=True) for
\* exclude = "unset", obj.model_dump(by_alias=True, exclude_none=True) for
\* exclude = "none"; applied to the nested instances and to the elements of
\* sequences as well.  What a tuple held by a Sequence field is dumped as
\* depends on the pydantic build (`tuples`): a list of the dumped elements
\* or a tuple of them.
model_dump(x, exclude, tuples) ==
    CASE x.t = "model" ->
           LET kept == SelectSeq(x.v, LAMBDA f :
                           IF exclude = "unset" THEN f.set ELSE f.val # NoneV)
           IN  DictV([i \in 1..Len(kept) |->
                        <<kept[i].alias, model_dump(kept[i].val, exclude, tuples)>>])
      [] x.t = "list" ->
           ListV([i \in 1..Len(x.v) |-> model_dump(x.v[i], exclude, tuples)])
      [] x.t = "tuple" ->
           IF tuples = "list"
           THEN ListV([i \in 1..Len(x.v) |-> model_dump(x.v[i], exclude, tuples)])
           ELSE TupleV([i \in 1..Len(x.v) |-> model_dump(x.v[i], exclude, tuples)])
      [] OTHER -> x

\* `exclude_none=True` on its own (helpers.py:87-88).
obj_to_dict_exclude_none(o, tuples) ==
    IF o = NoneV THEN o ELSE model_dump(o, "none", tuples)
\* `exclude_unset=True` on its own (helpers.py:89-90).
obj_to_dict_exclude_unset(o, tuples) ==
    IF o = NoneV THEN o ELSE model_dump(o, "unset", tuples)

\* The dump of the set fields in Python mode and the dump of the fields that
\* are not None in JSON mode, where a tuple becomes a list.
obj_to_dict_mixed_modes(o, tuples) ==
    IF o = NoneV THEN o
    ELSE deep_update(model_dump(o, "unset", tuples), <<model_dump(o, "none", "list")>>)
\* The two dumps merged whatever obj is.
obj_to_dict_unguarded(o, tuples) ==
    deep_update(model_dump(o, "unset", tuples), <<model_dump(o, "none", tuples)>>)
\* helpers.py:82-94: obj_to_dict(obj), `obj and deep_update(...)`.
obj_to_dict(o, tuples) ==
    IF o = NoneV THEN o
    ELSE deep_update(model_dump(o, "unset", tuples), <<model_dump(o, "none", tuples)>>)

\* --------------------------------------------------- model_to_field_names

\* The JSON schema of a field's type, as model_json_schema gives it
\* (helpers.py:50, ref_template "{model}"): a reference to a definition, an
\* array, a list of alternatives under anyOf, allOf or oneOf, or a schema
\* with none of these keys (a string, an integer, a constant, null).
Plain == [k |-> "plain"]
RefS(cls) == [k |-> "$ref", ref |-> cls]
ArrayS(items) == [k |-> "array", items |-> items]
AnyOf(subs) == [k |-> "anyOf", of |-> subs]
\* Optional[T]
Nullable(schema) == AnyOf(<<schema, Plain>>)

\* entities.py:111-123: the members of ProjectCustomFieldType, in order.
ProjectCustomFieldType ==
    << "GroupProjectCustomField", "BundleProjectCustomField", "BuildProjectCustomField",
       "EnumProjectCustomField", "OwnedProjectCustomField", "StateProjectCustomField",
       "UserProjectCustomField", "VersionProjectCustomField", "SimpleProjectCustomField",
       "TextProjectCustomField", "PeriodProjectCustomField" >>

\* entities.py:144-147: the fields of IssueCustomField, which its subclasses
\* inherit ahead of their own.
IssueCustomFieldProperties ==
    << <<"id", Nullable(Plain)>>,
       <<"name", Nullable(Plain)>>,
       <<"projectCustomField",
         AnyOf([i \in 1..Len(ProjectCustomFieldType) |-> RefS(ProjectCustomFieldType[i])]
               \o <<Plain>>)>> >>

\* The "properties" of a model's JSON schema: wire name (alias) and type
\* schema of each field, in declaration order (inherited fields first).
Properties(cls) ==
    CASE cls = "BaseModel" -> <<>>                           \* entities.py:9-13
      [] cls = "SimpleModel" ->                              \* test_helpers.py:14-17
           << <<"$type", Plain>>, <<"id", Nullable(Plain)>>,
              <<"shortName", Nullable(Plain)>> >>
      [] cls = "NestedModel" ->                              \* test_helpers.py:20-22
           << <<"$type", Plain>>, <<"value", Nullable(RefS("SimpleModel"))>> >>
      [] cls = "NestedUnionModel" ->                         \* test_helpers.py:25-28
           << <<"$type", Plain>>,
              <<"items", Nullable(ArrayS(AnyOf(<<RefS("NestedModel"),
                                                 RefS("SimpleModel"), Plain>>)))>>,
              <<"entry", AnyOf(<<RefS("NestedModel"), RefS("SimpleModel"),
                                 Plain, Plain>>)>> >>
      [] cls = "PeriodValue" ->                              \* entities.py:32-36
           << <<"$type", Plain>>, <<"id", Nullable(Plain)>>,
              <<"minutes", Nullable(Plain)>>, <<"presentation", Nullable(Plain)>> >>
      [] cls = "UserGroup" ->                                \* entities.py:64-68
           << <<"$type", Plain>>, <<"id", Nullable(Plain)>>,
              <<"name", Nullable(Plain)>>, <<"ringId", Nullable(Plain)>> >>
      [] cls = "FieldType" ->                                \* entities.py:71-73
           << <<"$type", Plain>>, <<"id", Nullable(Plain)>> >>
      [] cls = "CustomField" ->                              \* entities.py:76-78
           << <<"$type", Plain>>, <<"fieldType", Nullable(RefS("FieldType"))>> >>
      [] cls = "ProjectCustomField" ->                       \* entities.py:81-82
           << <<"field", Nullable(RefS("CustomField"))>> >>
      [] cls \in {ProjectCustomFieldType[i] : i \in 1..Len(ProjectCustomFieldType)} ->
           << <<"field", Nullable(RefS("CustomField"))>>,    \* entities.py:85-126
              <<"$type", Plain>> >>
      [] cls = "SimpleIssueCustomField" ->                   \* entities.py:155-157
           IssueCustomFieldProperties
           \o << <<"$type", Plain>>,
                 <<"value", AnyOf(<<Plain, Plain, Plain, Plain, Plain>>)>> >>
      [] cls = "PeriodIssueCustomField" ->                   \* entities.py:165-167
           IssueCustomFieldProperties
           \o << <<"$type", Plain>>, <<"value", Nullable(RefS("PeriodValue"))>> >>
      [] cls = "MultiGroupIssueCustomField" ->               \* entities.py:180-182
           IssueCustomFieldProperties
           \o << <<"$type", Plain>>, <<"value", ArrayS(RefS("UserGroup"))>> >>

\* What raises when a call is made on an object that has no such method.
NoAttribute(name) == [t |-> "AttributeError", why |-> name]

\* The first exception among the values, or the values.
FirstError(xs) ==
    IF \E i \in 1..Len(xs) : IsError(xs[i])
    THEN xs[CHOOSE i \in 1..Len(xs) :
                IsError(xs[i]) /\ \A j \in 1..(i - 1) : ~IsError(xs[j])]
    ELSE ListV(xs)

RECURSIVE schema_to_fields(_)
RECURSIVE type_to_fields(_)

\* helpers.py:54-62: the field tree of a field's type.
type_to_fields(field_type) ==
    IF field_type.k = "$ref" THEN schema_to_fields(field_type.ref)
    ELSE IF field_type.k = "array" THEN type_to_fields(field_type.items)
    ELSE IF field_type.k \in {"anyOf", "allOf", "oneOf"} /\ field_type.of # <<>>
    THEN LET subs == FirstError([i \in 1..Len(field_type.of) |->
                                    type_to_fields(field_type.of[i])])
         IN  IF IsError(subs) THEN subs ELSE deep_update(DictV(<<>>), subs.v)
    ELSE DictV(<<>>)

\* helpers.py:53-64: the field tree of a schema (of the model, or of the
\* definition a $ref names): each property name with the tree of its type.
schema_to_fields(cls) ==
    LET props == Properties(cls)
        subs == FirstError([i \in 1..Len(props) |-> type_to_fields(props[i][2])])
    IN  IF IsError(subs) THEN subs
        ELSE DictV([i \in 1..Len(props) |-> <<props[i][1], subs.v[i]>>])

\* Python's type objects: a model class, a union X | Y, an Annotated type,
\* and the FieldInfo that Field(...) returns.
ClassT(cls) == [k |-> "class", name |-> cls]
UnionT(members) == [k |-> "union", args |-> members]
AnnotatedT(origin, metadata) == [k |-> "Annotated", origin |-> origin, metadata |-> metadata]
FieldInfo == [k |-> "FieldInfo"]

\* helpers.py:49-66: model_to_fields(m); only a model class has
\* model_json_schema.
model_to_fields(m) ==
    IF m.k = "class" THEN schema_to_fields(m.name) ELSE NoAttribute("model_json_schema")

\* helpers.py:76: typing.get_args: the members of a union, the annotated
\* type followed by the metadata of an Annotated type, nothing for a class.
get_args(tp) ==
    CASE tp.k = "union" -> tp.args
      [] tp.k = "Annotated" -> <<tp.origin>> \o tp.metadata
      [] OTHER -> <<>>

RECURSIVE fields_to_csv(_)
RECURSIVE join_fields(_, _)

\* helpers.py:69-72: ",".join of the items from the n-th on.
join_fields(items, n) ==
    IF n > Len(items) THEN ""
    ELSE LET field_value == fields_to_csv(items[n][2])
             item == IF field_value # ""
                     THEN items[n][1] \o "(" \o field_value \o ")"
                     ELSE items[n][1]
         IN  IF n = Len(items) THEN item ELSE item \o "," \o join_fields(items, n + 1)

\* Nested fields without their parentheses.
fields_to_csv_flat(fields) ==
    LET F[n \in 1..(Len(fields.v) + 1)] ==
            IF n > Len(fields.v) THEN ""
            ELSE LET sub == fields_to_csv(fields.v[n][2])
                     item == IF sub # "" THEN fields.v[n][1] \o "," \o sub
                             ELSE fields.v[n][1]
                 IN  IF n = Len(fields.v) THEN item ELSE item \o "," \o F[n + 1]
    IN  F[1]

\* helpers.py:68-72: fields_to_csv(fields).
fields_to_csv(fields) == join_fields(fields.v, 1)

\* helpers.py:76-77: the merged field tree of the model, or what raised.
fields_dict(tp) ==
    LET args == get_args(tp)
        models == IF args # <<>> THEN args ELSE <<tp>>
        trees == FirstError([i \in 1..Len(models) |-> model_to_fields(models[i])])
    IN  IF IsError(trees) THEN trees ELSE deep_update(DictV(<<>>), trees.v)

\* helpers.py:79: fields_to_csv(fields_dict) or None.
csv_or_empty(fields) ==
    IF IsError(fields) THEN fields ELSE StrV(fields_to_csv(fields))
csv_or_none(fields) ==
    IF IsError(fields) THEN fields
    ELSE IF fields_to_csv(fields) # "" THEN StrV(fields_to_csv(fields)) ELSE NoneV

\* helpers.py:39-79: model_to_field_names(model), for the type object `tp`.
model_to_field_names(tp) == csv_or_none(fields_dict(tp))

\* ------------------------------------------------------- dates and times

\* Milliseconds in a day.
MsPerDay == 86400000
\* types.py:11: timedelta(hours=12); helpers.py:106: time(hour=12), in ms.
TwelveHours == 43200000

\* A Python int that is a count of milliseconds is held as whole days
\* since the epoch and milliseconds into the day, day * 86400000 + ms with
\* 0 <= ms < 86400000, where it does not fit the 32-bit integers of the
\* checker; within them it is IntV(n).
DayLimit == 2147483647 \div MsPerDay
MkInt(day, ms) ==
    IF day >= -DayLimit /\ day < DayLimit
    THEN IntV(day * MsPerDay + ms)
    ELSE [t |-> "int", day |-> day, ms |-> ms]
DayOf(i) == IF "day" \in DOMAIN i THEN i.day ELSE i.v \div MsPerDay
MsOf(i) == IF "ms" \in DOMAIN i THEN i.ms ELSE i.v % MsPerDay

\* A float is held as its millionths: FloatV(n) is the float n / 1000000.
Million == 1000000
FloatV(x) == [t |-> "float", v |-> x]
\* float("nan"), float("inf") and float("-inf").
SpecialFloat(name) == [t |-> "float", special |-> name]
\* datetime.date: the day, counted from 1970-01-01.
DateV(day) == [t |-> "date", day |-> day]
\* An aware datetime.datetime, as the instant it denotes: the day, the
\* millisecond of the day and the microsecond of the millisecond, in UTC.
DateTimeV(day, ms, us) == [t |-> "datetime", day |-> day, ms |-> ms, us |-> us]

\* The day number of the proleptic Gregorian date y-m-d.
days_from_civil(y, m, d) ==
    LET yy == IF m <= 2 THEN y - 1 ELSE y
        era == yy \div 400
        yoe == yy - era * 400
        mp == IF m > 2 THEN m - 3 ELSE m + 9
        doy == (153 * mp + 2) \div 5 + d - 1
        doe == yoe * 365 + yoe \div 4 - yoe \div 100 + doy
    IN  era * 146097 + doe - 719468

\* date(y, m, d) and datetime(y, m, d, H, M, S, tzinfo=UTC).
date(y, m, d) == DateV(days_from_civil(y, m, d))
datetime(y, m, d, hh, mm, ss) ==
    DateTimeV(days_from_civil(y, m, d), ((hh * 60 + mm) * 60 + ss) * 1000, 0)

\* datetime.MINYEAR and datetime.MAXYEAR: the days a datetime can hold.
MinDay == days_from_civil(1, 1, 1)
MaxDay == days_from_civil(9999, 12, 31)

\* ------------------------------------------------------------------ floats


\* A natural number of any size, as its digits to the base 2^15, the lowest
\* first and the highest not zero.
Limb == 32768
LimbBits == 15

RECURSIVE Limbs(_)
Limbs(n) == IF n = 0 THEN <<>> ELSE <<n % Limb>> \o Limbs(n \div Limb)

RECURSIVE TrimLimbs(_)
TrimLimbs(a) ==
    IF a # <<>> /\ a[Len(a)] = 0 THEN TrimLimbs(SubSeq(a, 1, Len(a) - 1)) ELSE a

RECURSIVE AddLimbs(_, _, _)
\* a + b + carry
AddLimbs(a, b, carry) ==
    IF a = <<>> /\ b = <<>> THEN Limbs(carry)
    ELSE LET x == IF a = <<>> THEN 0 ELSE Head(a)
             y == IF b = <<>> THEN 0 ELSE Head(b)
         IN  <<(x + y + carry) % Limb>>
             \o AddLimbs(IF a = <<>> THEN a ELSE Tail(a),
                         IF b = <<>> THEN b ELSE Tail(b), (x + y + carry) \div Limb)

RECURSIVE SubLimbs(_, _, _)
\* a - b - borrow, for a >= b + borrow
SubLimbs(a, b, borrow) ==
    IF a = <<>> THEN <<>>
    ELSE LET y == IF b = <<>> THEN 0 ELSE Head(b)
             diff == Head(a) - y - borrow
         IN  TrimLimbs(<<diff % Limb>>
                       \o SubLimbs(Tail(a), IF b = <<>> THEN b ELSE Tail(b),
                                   IF diff < 0 THEN 1 ELSE 0))

RECURSIVE TimesLimbs(_, _, _)
\* a * k + carry, for k < 2^15
TimesLimbs(a, k, carry) ==
    IF a = <<>> THEN Limbs(carry)
    ELSE <<(Head(a) * k + carry) % Limb>>
         \o TimesLimbs(Tail(a), k, (Head(a) * k + carry) \div Limb)

RECURSIVE RemainderFrom(_, _, _)
\* The digits of a from the at-th up, as a number, modulo k < 2^15.
RemainderFrom(a, at, k) ==
    IF at > Len(a) THEN 0 ELSE (RemainderFrom(a, at + 1, k) * Limb + a[at]) % k
\* a divided by k < 2^15, digit by digit from the highest: quotient and
\* remainder.
Quotient(a, k) ==
    TrimLimbs([at \in 1..Len(a) |-> (RemainderFrom(a, at + 1, k) * Limb + a[at]) \div k])
Remainder(a, k) == RemainderFrom(a, 1, k)

RECURSIVE BitLength(_)
\* The number of binary digits of a number of the checker.
BitLength(n) == IF n = 0 THEN 0 ELSE 1 + BitLength(n \div 2)
\* The number of binary digits of a.
BitsOf(a) == IF a = <<>> THEN 0 ELSE (Len(a) - 1) * LimbBits + BitLength(a[Len(a)])

\* a * 2^n and the whole part of a / 2^n.
ShiftLeft(a, n) ==
    TrimLimbs([i \in 1..(n \div LimbBits) |-> 0] \o TimesLimbs(a, 2 ^ (n % LimbBits), 0))
ShiftRight(a, n) ==
    IF n \div LimbBits >= Len(a) THEN <<>>
    ELSE Quotient(SubSeq(a, n \div LimbBits + 1, Len(a)), 2 ^ (n % LimbBits))

\* A finite double that is not negative: mant * 2^(-scale), mant of at most
\* 53 binary digits (or 2^53).
Double(mant, scale) == [mant |-> mant, scale |-> scale]
\* The binary digits of a double's significand.
Precision == 53

\* -1, 0 or 1 as a is less than, equal to or greater than b.
CompareLimbs(a, b) ==
    IF Len(a) # Len(b) THEN (IF Len(a) < Len(b) THEN -1 ELSE 1)
    ELSE LET differ == {i \in 1..Len(a) : a[i] # b[i]}
         IN  IF differ = {} THEN 0
             ELSE LET top == CHOOSE i \in differ : \A j \in differ : j <= i
                  IN  IF a[top] < b[top] THEN -1 ELSE 1

\* a / 2^n rounded to a whole number: to nearest, and to even on a tie;
\* `sticky` says that a non-zero part below a was cut off before.
RoundShift(a, n, sticky) ==
    IF n <= 0 THEN a
    ELSE With(ShiftRight(a, n), LAMBDA kept :
         With(SubLimbs(a, ShiftLeft(kept, n), 0), LAMBDA low :
         With(CompareLimbs(low, ShiftLeft(<<1>>, n - 1)), LAMBDA half :
             IF half = 1 \/ (half = 0 /\ (sticky \/ (kept # <<>> /\ kept[1] % 2 = 1)))
             THEN AddLimbs(kept, <<>>, 1)
             ELSE kept)))

\* The double nearest to a * 2^(-scale): a is rounded to 53 binary digits.
RoundToDouble(a, scale, sticky) ==
    With(BitsOf(a) - Precision, LAMBDA drop :
        IF drop <= 0 THEN Double(a, scale)
        ELSE Double(RoundShift(a, drop, sticky), scale - drop))

RECURSIVE DivideByAll(_, _)
\* a divided by each of the factors in turn: the whole part of a divided
\* by their product, and whether the division left no remainder.
DivideByAll(a, factors) ==
    IF factors = <<>> THEN [quot |-> a, exact |-> TRUE]
    ELSE LET rest == DivideByAll(Quotient(a, Head(factors)), Tail(factors))
         IN  [quot |-> rest.quot, exact |-> rest.exact /\ Remainder(a, Head(factors)) = 0]

RECURSIVE BitsOfAll(_)
\* An upper bound of the binary digits of the product of the factors.
BitsOfAll(factors) ==
    IF factors = <<>> THEN 0 ELSE BitLength(Head(factors)) + BitsOfAll(Tail(factors))

\* The double nearest to a / k, k the product of the factors: Python's true
\* division of two ints.  a is scaled by a power of two that gives the
\* quotient more than 54 binary digits, divided, and the quotient rounded.
true_divide(a, factors) ==
    IF a = <<>> THEN Double(<<>>, 0)
    ELSE With(56 + BitsOfAll(factors) - BitsOf(a), LAMBDA scale :
         With(DivideByAll(ShiftLeft(a, scale), factors), LAMBDA q :
             RoundToDouble(q.quot, scale, ~q.exact)))

\* The double nearest to x * k, k the product of the factors: the product
\* of two floats, k being a float that is a whole number.
RECURSIVE TimesAll(_, _)
TimesAll(a, factors) ==
    IF factors = <<>> THEN a ELSE TimesAll(TimesLimbs(a, Head(factors), 0), Tail(factors))
float_times(x, factors) == RoundToDouble(TrimLimbs(TimesAll(x.mant, factors)), x.scale, FALSE)

\* int(x), and modf(x): the digits of x before the point, and the part after
\* it as a double.
int_of_float(x) ==
    IF x.scale <= 0 THEN ShiftLeft(x.mant, -x.scale) ELSE ShiftRight(x.mant, x.scale)
fraction_of_float(x) ==
    IF x.scale <= 0 THEN Double(<<>>, 0)
    ELSE Double(SubLimbs(x.mant, ShiftLeft(int_of_float(x), x.scale), 0), x.scale)
\* x rounded to a whole number, to even on a tie.
round_half_even(x) == RoundShift(x.mant, x.scale, FALSE)

\* The number of the checker that a holds, a below 2^30.
NatOfLimbs(a) ==
    IF a = <<>> THEN 0 ELSE IF Len(a) = 1 THEN a[1] ELSE a[1] + Limb * a[2]

\* The int of the magnitude a, negated if `negative`: 86400000 is
\* 25600 * 3375.
IntOfLimbs(a, negative) ==
    LET hundreds == Quotient(a, 25600)
        days == Quotient(hundreds, 3375)
        day == NatOfLimbs(days)
        ms == 25600 * Remainder(hundreds, 3375) + Remainder(a, 25600)
    IN  IF ~negative THEN MkInt(day, ms)
        ELSE IF ms = 0 THEN MkInt(-day, 0)
        ELSE MkInt(-day - 1, MsPerDay - ms)

\* The microseconds between the epoch and the datetime: their magnitude.
MicrosecondsOf(dt) ==
    LET within == AddLimbs(TimesLimbs(Limbs(dt.ms), 1000, 0), Limbs(dt.us), 0)
        days == Limbs(IF dt.day < 0 THEN -dt.day ELSE dt.day)
        us_of_days == TimesLimbs(TimesLimbs(TimesLimbs(days, 25600, 0), 3375, 0), 1000, 0)
    IN  IF dt.day >= 0 THEN TrimLimbs(AddLimbs(us_of_days, within, 0))
        ELSE SubLimbs(us_of_days, within, 0)

\* dt.timestamp() of an aware datetime: (dt - epoch).total_seconds(), the
\* microseconds between the two divided by 10^6; its magnitude.
timestamp(dt) == true_divide(MicrosecondsOf(dt), <<1000, 1000>>)

\* The magnitude of the int i.
MagnitudeOf(i) ==
    IF "v" \in DOMAIN i THEN Limbs(IF i.v < 0 THEN -i.v ELSE i.v)
    ELSE LET days == Limbs(IF i.day < 0 THEN -i.day ELSE i.day)
             ms_of_days == TimesLimbs(TimesLimbs(days, 25600, 0), 3375, 0)
         IN  IF i.day >= 0 THEN TrimLimbs(AddLimbs(ms_of_days, Limbs(i.ms), 0))
             ELSE SubLimbs(ms_of_days, Limbs(i.ms), 0)
IsNegative(i) == IF "v" \in DOMAIN i THEN i.v < 0 ELSE i.day < 0

\* datetime.fromtimestamp(t, UTC) for the float t of magnitude x, negative
\* if `negative`: the whole seconds of t and its fraction, the fraction
\* times 10^6 rounded to the nearest microsecond (to even on a tie), the
\* two adjusted so that 0 <= microseconds < 10^6; ValueError when the year
\* is out of range.
YearOutOfRange == [t |-> "ValueError", why |-> "year is out of range"]
\* The datetime `days` days and `second` seconds from the epoch, with
\* `micros` microseconds more.
utc_datetime(days, second, micros, negative) ==
    LET day == IF ~negative THEN days ELSE IF second = 0 THEN -days ELSE -days - 1
        ms == (IF ~negative \/ second = 0 THEN second ELSE 86400 - second) * 1000
              + micros \div 1000
    IN  IF day < MinDay \/ day > MaxDay THEN YearOutOfRange
        ELSE DateTimeV(day, ms, micros % 1000)
\* The days and the second of the day of `seconds`: 86400 is 128 * 675.
gmtime(seconds, micros, negative) ==
    IF BitsOf(seconds) > 41 THEN YearOutOfRange
    ELSE With(NatOfLimbs(Quotient(Quotient(seconds, 128), 675)), LAMBDA days :
         With(128 * Remainder(Quotient(seconds, 128), 675) + Remainder(seconds, 128),
              LAMBDA second : utc_datetime(days, second, micros, negative)))
\* The seconds and the microseconds, as magnitudes, of the whole seconds
\* and the rounded microseconds of the fraction.
normalize_microseconds(whole, rounded, negative) ==
    IF rounded = Million THEN gmtime(AddLimbs(whole, <<>>, 1), 0, negative)
    ELSE IF negative /\ rounded > 0
    THEN gmtime(AddLimbs(whole, <<>>, 1), Million - rounded, negative)
    ELSE gmtime(whole, rounded, negative)
fromtimestamp(x, negative) ==
    With(int_of_float(x), LAMBDA whole :
    With(fraction_of_float(x), LAMBDA frac :
    With(float_times(frac, <<1000, 1000>>), LAMBDA scaled :
    With(NatOfLimbs(round_half_even(scaled)), LAMBDA rounded :
        normalize_microseconds(whole, rounded, negative)))))

\* datetime.fromtimestamp(v / 1000, UTC) (types.py:11, types.py:30) for the
\* int v: v / 1000 is the double nearest to the quotient.
fromtimestamp_ms(v) ==
    With(true_divide(MagnitudeOf(v), <<1000>>), LAMBDA x : fromtimestamp(x, IsNegative(v)))

\* dt - timedelta(hours=12) (types.py:11); OverflowError below year 1.
DateOverflow == [t |-> "OverflowError", why |-> "date value out of range"]
minus_12_hours(dt) ==
    LET day == IF dt.ms >= TwelveHours THEN dt.day ELSE dt.day - 1
        ms == IF dt.ms >= TwelveHours THEN dt.ms - TwelveHours
              ELSE dt.ms + MsPerDay - TwelveHours
    IN  IF dt.t # "datetime" THEN dt
        ELSE IF day < MinDay THEN DateOverflow
        ELSE DateTimeV(day, ms, dt.us)

\* ----------------------------------------------------------- the entities

\* The validation schema pydantic builds for a field's declared type.
str_schema(strict) == [k |-> "str", strict |-> strict]
int_schema(strict) == [k |-> "int", strict |-> strict]
float_schema(strict) == [k |-> "float", strict |-> strict]
literal_schema(expected) == [k |-> "literal", expected |-> expected]
nullable_schema(inner) == [k |-> "nullable", inner |-> inner]
model_schema(cls) == [k |-> "model", cls |-> cls]
union_schema(choices) == [k |-> "union", choices |-> choices]
tuple_variable_schema(items) == [k |-> "tuple", items |-> items]
sequence_schema(items) == [k |-> "sequence", items |-> items]
bool_schema == [k |-> "bool"]
datetime_schema == [k |-> "datetime"]
date_schema == [k |-> "date"]
function_before_schema(function, inner) ==
    [k |-> "function-before", function |-> function, inner |-> inner]
ModelChoices(classes) == [i \in 1..Len(classes) |-> model_schema(classes[i])]

\* types.py:8-13
YouTrackDate == function_before_schema("YouTrackDate", date_schema)
\* types.py:35, AwareDatetime
YouTrackDateTime == function_before_schema("validate_youtrack_datetime", datetime_schema)

\* entities.py:235-253: the members of IssueCustomFieldType, in order.
IssueCustomFieldType ==
    << "SingleEnumIssueCustomField", "MultiEnumIssueCustomField",
       "SingleBuildIssueCustomField", "MultiBuildIssueCustomField",
       "StateIssueCustomField", "SingleVersionIssueCustomField",
       "MultiVersionIssueCustomField", "SingleOwnedIssueCustomField",
       "MultiOwnedIssueCustomField", "SingleUserIssueCustomField",
       "MultiUserIssueCustomField", "SingleGroupIssueCustomField",
       "MultiGroupIssueCustomField", "SimpleIssueCustomField",
       "DateIssueCustomField", "PeriodIssueCustomField", "TextIssueCustomField" >>

\* A field with a default: `name: Optional[T] = Field(alias=..., default=None)`.
Optional(name, alias, schema) ==
    [name |-> name, alias |-> alias, schema |-> nullable_schema(schema),
     required |-> FALSE, default |-> NoneV]
\* A field without a default: `value: Sequence[T]`.
Required(name, alias, schema) ==
    [name |-> name, alias |-> alias, schema |-> schema,
     required |-> TRUE, default |-> NoneV]
\* `type: Literal[tag] = Field(alias="$type", default=tag)`.
TypeTag(tag) ==
    [name |-> "type", alias |-> "$type", schema |-> literal_schema({tag}),
     required |-> FALSE, default |-> StrV(tag)]

\* entities.py:39-61
BundleElements ==
    {"BuildBundleElement", "VersionBundleElement", "OwnedBundleElement",
     "EnumBundleElement", "StateBundleElement"}

\* entities.py:150-232: the type of `value` in each subclass of
\* IssueCustomField, and whether the field has a default.
ValueField(cls) ==
    CASE cls = "TextIssueCustomField" -> Optional("value", "value", model_schema("TextFieldValue"))
      [] cls = "SimpleIssueCustomField" ->
           Optional("value", "value",
                    union_schema(<<YouTrackDateTime, str_schema(TRUE),
                                   int_schema(TRUE), float_schema(TRUE)>>))
      [] cls = "DateIssueCustomField" -> Optional("value", "value", YouTrackDate)
      [] cls = "PeriodIssueCustomField" -> Optional("value", "value", model_schema("PeriodValue"))
      [] cls = "MultiBuildIssueCustomField" ->
           Required("value", "value", sequence_schema(model_schema("BuildBundleElement")))
      [] cls = "MultiEnumIssueCustomField" ->
           Required("value", "value", sequence_schema(model_schema("EnumBundleElement")))
      [] cls = "MultiGroupIssueCustomField" ->
           Required("value", "value", sequence_schema(model_schema("UserGroup")))
      [] cls = "MultiOwnedIssueCustomField" ->
           Required("value", "value", sequence_schema(model_schema("OwnedBundleElement")))
      [] cls = "MultiUserIssueCustomField" ->
           Required("value", "value", sequence_schema(model_schema("User")))
      [] cls = "MultiVersionIssueCustomField" ->
           Required("value", "value", sequence_schema(model_schema("VersionBundleElement")))
      [] cls = "SingleBuildIssueCustomField" ->
           Optional("value", "value", model_schema("BuildBundleElement"))
      [] cls = "SingleEnumIssueCustomField" ->
           Optional("value", "value", model_schema("EnumBundleElement"))
      [] cls = "SingleGroupIssueCustomField" -> Optional("value", "value", model_schema("UserGroup"))
      [] cls = "SingleOwnedIssueCustomField" ->
           Optional("value", "value", model_schema("OwnedBundleElement"))
      [] cls = "SingleUserIssueCustomField" -> Optional("value", "value", model_schema("User"))
      [] cls = "SingleVersionIssueCustomField" ->
           Optional("value", "value", model_schema("VersionBundleElement"))
      [] cls = "StateIssueCustomField" ->
           Optional("value", "value", model_schema("StateBundleElement"))

\* The fields of an entity class in declaration order, inherited fields
\* first: name, wire name, validation schema, default.
DeclaredFields(cls) ==
    CASE cls = "User" ->                                     \* entities.py:16-22
           << [name |-> "type", alias |-> "$type",
               schema |-> literal_schema({"User", "Me"}),
               required |-> FALSE, default |-> StrV("User")],
              Optional("id", "id", str_schema(FALSE)),
              Optional("name", "name", str_schema(FALSE)),
              Optional("ring_id", "ringId", str_schema(FALSE)),
              Optional("login", "login", str_schema(FALSE)),
              Optional("email", "email", str_schema(FALSE)) >>
      [] cls = "TextFieldValue" ->                           \* entities.py:25-29
           << TypeTag(cls), Optional("id", "id", str_schema(FALSE)),
              Optional("text", "text", str_schema(FALSE)),
              Optional("markdownText", "markdownText", str_schema(FALSE)) >>
      [] cls = "PeriodValue" ->                              \* entities.py:32-36
           << TypeTag(cls), Optional("id", "id", str_schema(FALSE)),
              Optional("minutes", "minutes", int_schema(FALSE)),
              Optional("presentation", "presentation", str_schema(FALSE)) >>
      [] cls \in BundleElements ->                           \* entities.py:39-61
           << Optional("id", "id", str_schema(FALSE)),
              Optional("name", "name", str_schema(FALSE)), TypeTag(cls) >>
      [] cls = "UserGroup" ->                                \* entities.py:64-68
           << TypeTag(cls), Optional("id", "id", str_schema(FALSE)),
              Optional("name", "name", str_schema(FALSE)),
              Optional("ring_id", "ringId", str_schema(FALSE)) >>
      [] cls = "FieldType" ->                                \* entities.py:71-73
           << TypeTag(cls), Optional("id", "id", str_schema(FALSE)) >>
      [] cls = "CustomField" ->                              \* entities.py:76-78
           << TypeTag(cls), Optional("field_type", "fieldType", model_schema("FieldType")) >>
      [] cls \in {ProjectCustomFieldType[i] : i \in 1..Len(ProjectCustomFieldType)} ->
           << Optional("field", "field", model_schema("CustomField")),     \* entities.py:81-126
              TypeTag(cls) >>
      [] cls \in {IssueCustomFieldType[i] : i \in 1..Len(IssueCustomFieldType)} ->
           << Optional("id", "id", str_schema(FALSE)),                     \* entities.py:144-232
              Optional("name", "name", str_schema(FALSE)),
              Optional("project_custom_field", "projectCustomField",
                       union_schema(ModelChoices(ProjectCustomFieldType))),
              TypeTag(cls), ValueField(cls) >>
      [] cls = "Project" ->                                  \* entities.py:255-259
           << TypeTag(cls), Optional("id", "id", str_schema(FALSE)),
              Optional("name", "name", str_schema(FALSE)),
              Optional("short_name", "shortName", str_schema(FALSE)) >>
      [] cls = "Tag" ->                                      \* entities.py:262-265
           << TypeTag(cls), Optional("id", "id", str_schema(FALSE)),
              Optional("name", "name", str_schema(FALSE)) >>
      [] cls = "IssueAttachment" ->                          \* entities.py:287-295
           << TypeTag(cls), Optional("id", "id", str_schema(FALSE)),
              Optional("name", "name", str_schema(FALSE)),
              Optional("author", "author", model_schema("User")),
              Optional("created", "created", datetime_schema),
              Optional("updated", "updated", datetime_schema),
              Optional("mime_type", "mimeType", str_schema(FALSE)),
              Optional("url", "url", str_schema(FALSE)) >>
      [] cls = "IssueComment" ->                             \* entities.py:298-307
           << TypeTag(cls), Optional("id", "id", str_schema(FALSE)),
              Optional("text", "text", str_schema(FALSE)),
              Optional("text_preview", "textPreview", str_schema(FALSE)),
              Optional("created", "created", datetime_schema),
              Optional("updated", "updated", datetime_schema),
              Optional("author", "author", model_schema("User")),
              Optional("attachments", "attachments",
                       sequence_schema(model_schema("IssueAttachment"))),
              Optional("deleted", "deleted", bool_schema) >>
      [] cls = "Issue" ->                                    \* entities.py:268-284
           << TypeTag(cls), Optional("id", "id", str_schema(FALSE)),
              Optional("id_readable", "idReadable", str_schema(FALSE)),
              Optional("created", "created", datetime_schema),
              Optional("updated", "updated", datetime_schema),
              Optional("resolved", "resolved", datetime_schema),
              Optional("project", "project", model_schema("Project")),
              Optional("reporter", "reporter", model_schema("User")),
              Optional("updater", "updater", model_schema("User")),
              Optional("summary", "summary", str_schema(FALSE)),
              Optional("description", "description", str_schema(FALSE)),
              Optional("wikified_description", "wikifiedDescription", str_schema(FALSE)),
              Optional("comments_count", "commentsCount", int_schema(FALSE)),
              Optional("tags", "tags", sequence_schema(model_schema("Tag"))),
              Optional("custom_fields", "customFields",
                       sequence_schema(union_schema(ModelChoices(IssueCustomFieldType)))) >>

\* The entity classes, and the fields of each.
EntityClasses ==
    {"User", "TextFieldValue", "PeriodValue", "UserGroup", "FieldType", "CustomField",
     "Project", "Tag", "Issue", "IssueAttachment", "IssueComment"}
    \cup BundleElements
    \cup {ProjectCustomFieldType[i] : i \in 1..Len(ProjectCustomFieldType)}
    \cup {IssueCustomFieldType[i] : i \in 1..Len(IssueCustomFieldType)}
ModelFields == [cls \in EntityClasses |-> DeclaredFields(cls)]
FieldsOf(cls) == ModelFields[cls]

\* ---------------------------------------------------------------- decoding


\* pydantic's ValidationError: the line errors, each with the location of
\* the input it is about and its type.
LineErrors(errors) == [t |-> "ValidationError", errors |-> errors]
LineError(type) == LineErrors(<< [loc |-> <<>>, type |-> type] >>)
IsLineErrors(x) == x.t = "ValidationError"
\* An exception that is no ValueError and no AssertionError leaves the
\* validation as it is.
IsInternalErr(x) == x.t \in {"AttributeError", "RuntimeError", "OverflowError"}
HasRaised(x) == IsLineErrors(x) \/ IsInternalErr(x)
\* The line errors, each under one more location.
Under(loc, err) ==
    [i \in 1..Len(err.errors) |->
        [loc |-> <<loc>> \o err.errors[i].loc, type |-> err.errors[i].type]]

\* obj.name on a model instance or on None; an AttributeError raised in
\* evaluating obj is the outcome.
getattr(o, name) ==
    IF o.t = "AttributeError" THEN o
    ELSE IF o.t # "model" THEN NoAttribute(name)
    ELSE o.v[CHOOSE i \in 1..Len(o.v) : FieldsOf(o.cls)[i].name = name].val

\* types.py:18
NoProjectCustomField == [t |-> "RuntimeError", why |-> "project_custom_field"]
\* types.py:28
MustBeInteger == [t |-> "ValueError", why |-> "'date and time' field must be an integer"]

\* types.py:21: project_custom_field.field.field_type.id
marker_id(pcf) == getattr(getattr(getattr(pcf, "field"), "field_type"), "id")

\* types.py:24-30: the value of a "date and time" field that is not None.
coerce_to_datetime(value) ==
    IF value.t = "datetime" THEN value
    ELSE IF value.t # "int" THEN MustBeInteger
    ELSE fromtimestamp_ms(value)

\* types.py:19-32: the value of a field whose marker is `id`.
coerce_if_marked(id, value) ==
    IF id.t = "AttributeError" THEN id
    ELSE IF id = StrV("date and time") /\ value # NoneV THEN coerce_to_datetime(value)
    ELSE value

\* types.py:16-32: validate_youtrack_datetime(value, info), `data` being
\* info.data, the fields of the model validated before this one, by name.
validate_youtrack_datetime(value, data) ==
    IF ~HasKey(data, "project_custom_field") THEN NoProjectCustomField
    ELSE IF Get(data, "project_custom_field") = NoneV THEN value
    ELSE coerce_if_marked(marker_id(Get(data, "project_custom_field")), value)

\* types.py:11: the lambda of YouTrackDate.
date_of_noon_same_day(d) == fromtimestamp_ms(d)
date_of_noon(d) == minus_12_hours(fromtimestamp_ms(d))
youtrack_date(d) == IF d.t = "int" THEN date_of_noon(d) ELSE d

\* A number given where a date or a datetime is expected is Unix time, in
\* seconds when its magnitude is at most 2e10 and in milliseconds beyond.
unix_instant(v) ==
    IF "day" \notin DOMAIN v
    THEN DateTimeV(v.v \div 86400, (v.v % 86400) * 1000, 0)
    ELSE IF (v.day >= 0 /\ (v.day < 231 \/ (v.day = 231 /\ v.ms <= 41600000)))
            \/ (v.day < 0 /\ (v.day > -232 \/ (v.day = -232 /\ v.ms >= 44800000)))
    THEN DateTimeV(v.day * 1000 + v.ms \div 86400, (v.ms % 86400) * 1000, 0)
    ELSE DateTimeV(v.day, v.ms, 0)

\* The datetime validator of AwareDatetime; every datetime of the model is
\* aware.  The strings of the inputs are no ISO datetimes.
validate_datetime(input, strict) ==
    IF input.t = "datetime" THEN input
    ELSE IF strict THEN LineError("datetime_type")
    ELSE IF input.t = "int" THEN unix_instant(input)
    ELSE IF input.t = "float" /\ "special" \in DOMAIN input THEN LineError("datetime_parsing")
    ELSE IF input.t = "float"
    THEN DateTimeV((input.v \div Million) \div 86400,
                   ((input.v \div Million) % 86400) * 1000 + (input.v % Million) \div 1000,
                   input.v % 1000)
    ELSE IF input.t = "str" THEN LineError("datetime_from_date_parsing")
    ELSE LineError("datetime_type")

\* The date validator: a date; outside strict mode also a datetime (or the
\* instant a number stands for) whose time of day is zero.  The strings of
\* the inputs are no ISO dates.
exact_date(dt) ==
    IF dt.ms = 0 /\ dt.us = 0 THEN DateV(dt.day)
    ELSE LineError("date_from_datetime_inexact")
validate_date(input, strict) ==
    IF input.t = "date" THEN input
    ELSE IF strict THEN LineError("date_type")
    ELSE IF input.t = "datetime" THEN exact_date(input)
    ELSE IF input.t = "int" THEN exact_date(unix_instant(input))
    ELSE IF input.t = "float" THEN exact_date(validate_datetime(input, FALSE))
    ELSE IF input.t = "str" THEN LineError("date_from_datetime_parsing")
    ELSE LineError("date_type")

\* The decimal strings among the inputs, as numbers; -1 for any other.
int_of_str(x) == IF x = "1623396729" THEN 1623396729 ELSE -1

\* The int validator.
validate_int(input, strict) ==
    IF input.t = "int" THEN input
    ELSE IF strict THEN LineError("int_type")
    ELSE IF input.t = "float"
    THEN IF input.v % Million = 0 THEN IntV(input.v \div Million)
         ELSE LineError("int_from_float")
    ELSE IF input.t = "str"
    THEN IF int_of_str(input.v) >= 0 THEN IntV(int_of_str(input.v))
         ELSE LineError("int_parsing")
    ELSE LineError("int_type")

\* The float validator, StrictFloat: a float, or an int as a float.
validate_float(input) ==
    IF input.t = "float" THEN input
    ELSE IF input.t = "int" THEN [t |-> "float", int |-> input]
    ELSE LineError("float_type")

RECURSIVE validate(_, _, _, _, _)
RECURSIVE validate_fields(_, _, _, _, _)
RECURSIVE line_errors(_, _)
RECURSIVE validate_items(_, _, _, _, _, _)
RECURSIVE is_exact(_, _, _)

\* The fields of a model, the first n of them validated in declaration
\* order: `data` holds the values validated so far by field name (a field
\* that failed is not in it), `out` the fields of the instance, `errors`
\* the line errors so far.  A field is looked up by its alias, then by its
\* name (populate_by_name); a field that is not given takes its default
\* and stays unset.
validate_fields(cls, input, n, strict, smart) ==
    IF n = 0 THEN [t |-> "fields", data |-> <<>>, out |-> <<>>, errors |-> <<>>]
    ELSE With(validate_fields(cls, input, n - 1, strict, smart), LAMBDA acc :
         LET f == FieldsOf(cls)[n]
             given == HasKey(input.v, f.alias) \/ HasKey(input.v, f.name)
             raw == IF HasKey(input.v, f.alias) THEN Get(input.v, f.alias)
                    ELSE Get(input.v, f.name)
         IN  IF IsInternalErr(acc) THEN acc
             ELSE IF ~given /\ f.required
             THEN [acc EXCEPT !.errors = @ \o << [loc |-> <<f.alias>>, type |-> "missing"] >>]
             ELSE IF ~given
             THEN [acc EXCEPT
                     !.data = Append(@, <<f.name, f.default>>),
                     !.out = Append(@, [alias |-> f.alias, set |-> FALSE, val |-> f.default])]
             ELSE With(validate(f.schema, raw, acc.data, strict, smart), LAMBDA r :
                       IF IsInternalErr(r) THEN r
                       ELSE IF IsLineErrors(r)
                       THEN [acc EXCEPT !.errors = @ \o Under(f.alias, r)]
                       ELSE [acc EXCEPT
                               !.data = Append(@, <<f.name, r>>),
                               !.out = Append(@, [alias |-> f.alias, set |-> TRUE,
                                                  val |-> r])]))

\* Every choice of a union validated on the input, each with its place
\* among the choices.
try_choices(choices, input, data, strict, smart) ==
    {<<i, validate(choices[i], input, data, strict, smart)>> : i \in 1..Len(choices)}
\* The outcome of the first of the choices tried.
first_of(tried) == (CHOOSE p \in tried : \A q \in tried : p[1] <= q[1])[2]
\* The line errors of the choices from the n-th on, in the order of the
\* choices.
line_errors(tried, n) ==
    IF n > Cardinality(tried) THEN <<>>
    ELSE (CHOOSE p \in tried : p[1] = n)[2].errors \o line_errors(tried, n + 1)

\* The choices of a union in one mode: the outcome of the first that
\* validates or raises an exception that is no line error (the choices
\* after it are not tried); the line errors of all when none does.
validate_choices(choices, input, data, strict, smart) ==
    With(try_choices(choices, input, data, strict, smart), LAMBDA tried :
         LET taken == {p \in tried : ~IsLineErrors(p[2])}
         IN  IF taken = {} THEN LineErrors(line_errors(tried, 1)) ELSE first_of(taken))

\* The items of a sequence from the n-th on, validated in order.
validate_items(schema, items, n, data, strict, smart) ==
    IF n > Len(items) THEN ListV(<<>>)
    ELSE With(validate(schema, items[n], data, strict, smart), LAMBDA r :
         With(validate_items(schema, items, n + 1, data, strict, smart), LAMBDA rest :
              IF IsInternalErr(r) THEN r
              ELSE IF IsInternalErr(rest) THEN rest
              ELSE IF IsLineErrors(r) /\ IsLineErrors(rest)
              THEN LineErrors(Under("item", r) \o rest.errors)
              ELSE IF IsLineErrors(r) THEN LineErrors(Under("item", r))
              ELSE IF IsLineErrors(rest) THEN rest
              ELSE ListV(<<r>> \o rest.v)))

\* Whether the schema takes the input as it is, with no conversion: the
\* exactness pydantic-core records for a match.
is_exact(schema, input, data) ==
    CASE schema.k \in {"str", "literal"} -> TRUE
      [] schema.k \in {"int", "float", "datetime", "date"} -> input.t = schema.k
      [] schema.k = "nullable" -> input = NoneV \/ is_exact(schema.inner, input, data)
      [] schema.k = "function-before" ->
           is_exact(schema.inner,
                    IF schema.function = "validate_youtrack_datetime"
                    THEN validate_youtrack_datetime(input, data)
                    ELSE youtrack_date(input), data)
      [] schema.k = "model" -> input.t = "model"
      [] OTHER -> FALSE

\* The choices of a union, each tried outside strict mode unless the union
\* is in it: an exact match is returned at once, any other match is kept
\* and the later choices are still tried, an exception that is no line
\* error ends the validation.  The matches of the inputs of the model that
\* are not exact set the same number of fields, so the first of them is the
\* best.
best_match(choices, input, data, strict, smart) ==
    With(try_choices(choices, input, data, strict, smart), LAMBDA tried :
         LET final == {p \in tried :
                         \/ IsInternalErr(p[2])
                         \/ ~IsLineErrors(p[2]) /\ is_exact(choices[p[1]], input, data)}
             taken == {p \in tried : ~IsLineErrors(p[2])}
         IN  IF final # {} THEN first_of(final)
             ELSE IF taken # {} THEN first_of(taken)
             ELSE LineErrors(line_errors(tried, 1)))

\* The two ways releases of pydantic 2 validate a union in smart mode.
\* "strict first": the first choice that takes the input in strict mode,
\* else the first that takes it in lax mode.  "best match": every choice is
\* tried and the best match is returned.
SmartModes == {"strict first", "best match"}
smart_union(choices, input, data, strict, smart) ==
    IF smart = "best match"
    THEN best_match(choices, input, data, strict, smart)
    ELSE With(validate_choices(choices, input, data, TRUE, smart), LAMBDA exact :
              IF strict \/ ~IsLineErrors(exact) THEN exact
              ELSE validate_choices(choices, input, data, FALSE, smart))

\* The value the schema makes of the input, or what is raised.
validate(schema, input, data, strict, smart) ==
    CASE schema.k = "nullable" ->
           IF input = NoneV THEN NoneV ELSE validate(schema.inner, input, data, strict, smart)
      [] schema.k = "str" ->
           IF input.t = "str" THEN input ELSE LineError("string_type")
      [] schema.k = "int" -> validate_int(input, strict \/ schema.strict)
      [] schema.k = "float" -> validate_float(input)
      [] schema.k = "literal" ->
           IF input.t = "str" /\ input.v \in schema.expected THEN input
           ELSE LineError("literal_error")
      [] schema.k = "bool" ->
           IF input.t = "bool" THEN input
           ELSE IF ~strict /\ input \in {IntV(0), IntV(1)} THEN BoolV(input = IntV(1))
           ELSE LineError("bool_parsing")
      [] schema.k = "datetime" -> validate_datetime(input, strict)
      [] schema.k = "date" -> validate_date(input, strict)
      [] schema.k = "function-before" ->
           With(IF schema.function = "validate_youtrack_datetime"
                THEN validate_youtrack_datetime(input, data)
                ELSE youtrack_date(input), LAMBDA r :
                IF r.t = "ValueError" THEN LineError("value_error")
                ELSE IF IsInternalErr(r) THEN r
                ELSE validate(schema.inner, r, data, strict, smart))
      [] schema.k = "union" -> smart_union(schema.choices, input, data, strict, smart)
      [] schema.k = "model" ->
           IF input.t = "model" /\ input.cls = schema.cls THEN input
           ELSE IF input.t # "dict" THEN LineError("model_type")
           ELSE With(validate_fields(schema.cls, input, Len(FieldsOf(schema.cls)), strict, smart),
                     LAMBDA acc :
                     IF IsInternalErr(acc) THEN acc
                     ELSE IF acc.errors # <<>> THEN LineErrors(acc.errors)
                     ELSE ModelV(schema.cls, acc.out))
      [] schema.k = "sequence" ->
           IF input.t \notin {"list", "tuple"} THEN LineError("sequence_type")
           ELSE With(validate_items(schema.items, input.v, 1, data, strict, smart), LAMBDA r :
                     IF HasRaised(r) THEN r
                     ELSE IF input.t = "tuple" THEN TupleV(r.v) ELSE r)
      [] schema.k = "tuple" ->
           IF input.t \notin {"list", "tuple"} THEN LineError("tuple_type")
           ELSE With(validate_items(schema.items, input.v, 1, data, strict, smart), LAMBDA r :
                     IF HasRaised(r) THEN r ELSE TupleV(r.v))

\* TypeAdapter(tp).validate_python(input) and Model.model_validate(input)
\* (client.py:146, client.py:230, client.py:252).
validate_python(schema, input, smart) == validate(schema, input, <<>>, FALSE, smart)

\* ---------------------------------------------------------------- encoding

\* helpers.py:99-100: int(dt.timestamp() * 1000)
to_youtrack_timestamp(dt) ==
    IntOfLimbs(int_of_float(float_times(timestamp(dt), <<1000>>)), dt.day < 0)

\* helpers.py:106: datetime.combine(obj, time(hour=12, tzinfo=UTC))
combine_at_midnight(d) == DateTimeV(d.day, 0, 0)
combine_at_noon(d) == DateTimeV(d.day, TwelveHours, 0)

\* json.JSONEncoder.default: the TypeError for a value json cannot write.
NotSerializable(type) == [t |-> "TypeError", why |-> "not JSON serializable", type |-> type]

\* helpers.py:97-108: YouTrackTimestampEncoder.default. json calls it for a
\* value that is none of dict, list, tuple, str, int, float, bool and None.
default(o) ==
    CASE o.t = "datetime" -> to_youtrack_timestamp(o)
      [] o.t = "date" -> to_youtrack_timestamp(combine_at_noon(o))
      [] OTHER -> NotSerializable(IF o.t = "model" THEN o.cls ELSE o.t)

RECURSIVE Decimal(_)
\* The decimal digits of a, none for zero.
Decimal(a) ==
    IF a = <<>> THEN "" ELSE Decimal(Quotient(a, 10)) \o ToString(Remainder(a, 10))

\* int.__repr__, which json writes for an int.
int_repr(i) ==
    LET a == MagnitudeOf(i)
    IN  IF a = <<>> THEN "0" ELSE (IF IsNegative(i) THEN "-" ELSE "") \o Decimal(a)

\* float.__repr__ of a finite float held as millionths: the shortest
\* digits, which are those of the millionths without the trailing zeros.
RECURSIVE Fraction(_, _)
Fraction(n, width) ==
    IF n = 0 THEN ""
    ELSE ToString(n \div (10 ^ (width - 1))) \o Fraction(n % (10 ^ (width - 1)), width - 1)
float_repr(x) ==
    LET a == IF x < 0 THEN -x ELSE x
        frac == Fraction(a % Million, 6)
    IN  (IF x < 0 THEN "-" ELSE "") \o ToString(a \div Million) \o "."
        \o (IF frac = "" THEN "0" ELSE frac)

\* A document json.dumps has written.
JsonText(s) == [t |-> "json", v |-> s]
\* json.dumps(allow_nan=False) on a float that is nan or an infinity.
OutOfRangeFloat == [t |-> "ValueError", why |-> "Out of range float values are not JSON compliant"]
IsRaised(x) == x.t \in {"TypeError", "ValueError", "AttributeError", "OverflowError"}

\* json.encoder floatstr: the text of a float. With allow_nan=True json
\* writes the JavaScript names of the three floats that are not finite.
floatstr_allow_nan(o) ==
    IF "special" \in DOMAIN o
    THEN JsonText(CASE o.special = "nan" -> "NaN"
                    [] o.special = "inf" -> "Infinity"
                    [] o.special = "-inf" -> "-Infinity")
    ELSE IF "int" \in DOMAIN o THEN JsonText(int_repr(o.int) \o ".0")
    ELSE JsonText(float_repr(o.v))
\* helpers.py:112: allow_nan=False, those three floats raise.
floatstr(o) ==
    IF "special" \in DOMAIN o THEN OutOfRangeFloat
    ELSE IF "int" \in DOMAIN o THEN JsonText(int_repr(o.int) \o ".0")
    ELSE JsonText(float_repr(o.v))

RECURSIVE encode(_)
RECURSIVE encode_items(_, _, _)

\* The elements n.. of a list or a tuple, or the items n.. of a dict, each
\* written and joined by ", "; the first error raised ends the writing.
encode_items(xs, n, is_dict) ==
    IF n > Len(xs) THEN JsonText("")
    ELSE LET item == IF is_dict THEN encode(xs[n][2]) ELSE encode(xs[n])
         IN  IF IsRaised(item) THEN item
             ELSE LET rest == encode_items(xs, n + 1, is_dict)
                      key == IF is_dict THEN "\"" \o xs[n][1] \o "\": " ELSE ""
                  IN  IF IsRaised(rest) THEN rest
                      ELSE JsonText(key \o item.v
                                    \o (IF n < Len(xs) THEN ", " ELSE "") \o rest.v)

\* json.JSONEncoder.encode with the default separators: the values json
\* knows are written by json, every other one goes through `default` and
\* what that returns is written in its place. The strings of the model hold
\* no character that json escapes.
encode(o) ==
    CASE o.t = "NoneType" -> JsonText("null")
      [] o.t = "bool" -> JsonText(IF o.v THEN "true" ELSE "false")
      [] o.t = "int" -> JsonText(int_repr(o))
      [] o.t = "float" -> floatstr(o)
      [] o.t = "str" -> JsonText("\"" \o o.v \o "\"")
      [] o.t \in {"list", "tuple"} ->
           LET r == encode_items(o.v, 1, FALSE)
           IN  IF IsRaised(r) THEN r ELSE JsonText("[" \o r.v \o "]")
      [] o.t = "dict" ->
           LET r == encode_items(o.v, 1, TRUE)
           IN  IF IsRaised(r) THEN r ELSE JsonText("{" \o r.v \o "}")
      [] OTHER ->
           LET r == default(o)
           IN  IF IsRaised(r) THEN r ELSE encode(r)

\* helpers.py:111-112
custom_json_dumps(o) == encode(o)

\* helpers.py:115-116: obj_to_json(obj); what obj_to_dict raises leaves it.
obj_to_json_of_set_fields(o, tuples) ==
    IF IsError(obj_to_dict_exclude_unset(o, tuples)) THEN obj_to_dict_exclude_unset(o, tuples)
    ELSE custom_json_dumps(obj_to_dict_exclude_unset(o, tuples))
obj_to_json(o, tuples) ==
    IF IsError(obj_to_dict(o, tuples)) THEN obj_to_dict(o, tuples)
    ELSE custom_json_dumps(obj_to_dict(o, tuples))

\* ------------------------------------------------- inputs of deep_update

\* Longest list (and tuple) among the inputs.
MaxLen == 2
\* Most source mappings in one call.
MaxMappings == 2

KeyNames == {"a", "b"}
Scalars == {NoneV, IntV(1), IntV(2), StrV("x")}

\* Every sequence over S of at most n elements.
SeqUpTo(S, n) == UNION {[1..k -> S] : k \in 0..n}

\* Dicts of at most one key.
SmallDicts ==
    {DictV(<<>>)} \cup
    {DictV(<< <<k, x>> >>) : k \in KeyNames, x \in {NoneV, IntV(1), IntV(2)}}

\* What a list holds: mappings, a scalar, a null.
Elems == {DictV(<< <<"a", NoneV>> >>), DictV(<< <<"b", IntV(2)>> >>), IntV(1), NoneV}
Lists == {ListV(xs) : xs \in SeqUpTo(Elems, MaxLen)}
\* Lists of mappings that themselves hold a list.
DeepLists ==
    {ListV(<< DictV(<< <<"a", ListV(xs)>> >>) >>) : xs \in SeqUpTo({IntV(1)}, MaxLen)}
Tuples == {TupleV(xs) : xs \in SeqUpTo({DictV(<< <<"a", NoneV>> >>)}, 1)}

\* The values under key "a" of a top-level mapping.
Values ==
    Scalars \cup SmallDicts \cup Lists \cup DeepLists \cup Tuples
    \cup {DictV(<< <<"a", l>> >>) : l \in Lists}

\* The values under key "b", which follows "a" in a mapping that has both.
SecondValues == {IntV(1), ListV(<<IntV(1)>>), ListV(<<>>)}

Mappings ==
    {DictV(<<>>)}
    \cup {DictV(<< <<"a", x>> >>) : x \in Values}
    \cup {DictV(<< <<"b", y>> >>) : y \in SecondValues}
    \cup {DictV(<< <<"a", x>>, <<"b", y>> >>) : x \in Values, y \in SecondValues}

\* A further source mapping, applied after the first.
LaterMappings == {DictV(<< <<"a", x>> >>) : x \in {IntV(2), StrV("x"), DictV(<<>>)}}

MappingLists ==
    {<<m>> : m \in Mappings}
    \cup UNION {[1..k -> LaterMappings] : k \in 2..MaxMappings}

\* -------------------------------------------------- inputs of obj_to_dict

TupleDumps == {"list", "tuple"}

SimpleModels ==
    {model_construct("SimpleModel", a) :
        a \in [type : {Unset, StrV("SimpleModel")},
               flag : {Unset, NoneV, BoolV(TRUE)},
               short_name : {Unset, NoneV, StrV("Demo")},
               value : {Unset, NoneV, IntV(5)}]}

\* The instances held by a NestedModel.
InnerSimpleModels ==
    {model_construct("SimpleModel", a) :
        a \in {[type |-> Unset, flag |-> Unset, short_name |-> Unset, value |-> Unset],
               [type |-> Unset, flag |-> Unset, short_name |-> StrV("Source"), value |-> NoneV],
               [type |-> Unset, flag |-> Unset, short_name |-> StrV("Dest"), value |-> IntV(5)]}}

NestedModels ==
    {model_construct("NestedModel", a) :
        a \in [type : {Unset},
               source : {Unset, NoneV} \cup InnerSimpleModels,
               dest : {Unset, NoneV} \cup InnerSimpleModels]}

\* The instances held by the sequences of a NestedSequenceModel.
InnerNestedModels ==
    {model_construct("NestedModel", a) :
        a \in {[type |-> Unset, source |-> Unset, dest |-> Unset],
               [type |-> Unset, source |-> NoneV, dest |-> Unset],
               [type |-> Unset,
                source |-> model_construct("SimpleModel",
                               [type |-> Unset, flag |-> Unset,
                                short_name |-> StrV("Source"), value |-> NoneV]),
                dest |-> model_construct("SimpleModel",
                               [type |-> Unset, flag |-> Unset,
                                short_name |-> StrV("Dest"), value |-> IntV(5)])]}}

NestedSequenceModels ==
    {model_construct("NestedSequenceModel", a) :
        a \in [type : {Unset},
               items : {Unset, NoneV}
                       \cup {ListV(xs) : xs \in SeqUpTo(InnerNestedModels, MaxLen)}
                       \cup {TupleV(xs) : xs \in SeqUpTo(InnerNestedModels, MaxLen)},
               stocks : {Unset, NoneV, ListV(<<>>)}
                        \cup {ListV(<<n>>) : n \in InnerNestedModels}]}

Instances == SimpleModels \cup NestedModels \cup NestedSequenceModels

\* ------------------------------------------ inputs of model_to_field_names

\* Most members of a union given to model_to_field_names.
MaxUnion == 2

ModelClasses ==
    {"BaseModel",
     "SimpleModel", "NestedModel", "NestedUnionModel", "UserGroup", "CustomField",
     "ProjectCustomField", "GroupProjectCustomField", "SimpleIssueCustomField",
     "PeriodIssueCustomField", "MultiGroupIssueCustomField"}

\* The unions: sequences of two or more distinct classes.
MemberLists ==
    {ms \in UNION {[1..n -> ModelClasses] : n \in 2..MaxUnion} :
        \A i, j \in 1..Len(ms) : i # j => ms[i] # ms[j]}

\* The ways to write a union of the classes `ms` (test_helpers.py:55-63).
UnionForms == {"A | B", "Union[A | B]", "Annotated[A | B, Field(discriminator=...)]"}
PipeUnion(ms) == UnionT([i \in 1..Len(ms) |-> ClassT(ms[i])])
\* What the expression of each form evaluates to: Union[X] is X.
Written(form, ms) ==
    IF form = "Annotated[A | B, Field(discriminator=...)]"
    THEN AnnotatedT(PipeUnion(ms), <<FieldInfo>>)
    ELSE PipeUnion(ms)

\* ----------------------------------------------------- inputs of decoding

\* The days around the epoch among the inputs: -DaySpan .. DaySpan.
DaySpan == 2
\* Most custom fields in one response.
MaxFields == 2

\* The entity classes decoded to on their own.
EntityTargets == {"SimpleIssueCustomField", "DateIssueCustomField"}

\* The `$type` of a custom field of the response: members of the union and
\* a name that is none.
WireTags ==
    {"SingleEnumIssueCustomField", "SimpleIssueCustomField", "DateIssueCustomField",
     "PeriodIssueCustomField", "Bogus"}

\* projectCustomField(field(fieldType(id))) as the server sends it, whole or
\* cut short at each level.
WireFieldType(id) == DictV(<< <<"id", id>>, <<"$type", StrV("FieldType")>> >>)
WireCustomField(field_type) ==
    DictV(<< <<"fieldType", field_type>>, <<"$type", StrV("CustomField")>> >>)
WireProjectCustomField(field) ==
    DictV(<< <<"field", field>>, <<"$type", StrV("SimpleProjectCustomField")>> >>)
FieldTypeIds == {"date and time", "string", "date"}
WholeProjectCustomFields ==
    {WireProjectCustomField(WireCustomField(WireFieldType(StrV(id)))) : id \in FieldTypeIds}
CutProjectCustomFields ==
    {DictV(<< <<"$type", StrV("SimpleProjectCustomField")>> >>),
     WireProjectCustomField(NoneV),
     WireProjectCustomField(DictV(<< <<"$type", StrV("CustomField")>> >>)),
     WireProjectCustomField(WireCustomField(NoneV))}
UnmarkedProjectCustomFields ==
    {NoneV,
     WireProjectCustomField(WireCustomField(DictV(<< <<"$type", StrV("FieldType")>> >>))),
     WireProjectCustomField(WireCustomField(WireFieldType(NoneV)))}
\* A projectCustomField that is no member of ProjectCustomFieldType.
UnknownProjectCustomFields == {DictV(<< <<"$type", StrV("BogusProjectCustomField")>> >>)}
WireProjectCustomFields ==
    WholeProjectCustomFields \cup CutProjectCustomFields \cup UnmarkedProjectCustomFields
    \cup UnknownProjectCustomFields

\* The calendar days among the inputs: around the epoch, the days of the
\* tests (2022-02-17, 2023-07-04), the first and the last day of datetime.
Days == (-DaySpan..DaySpan) \cup {days_from_civil(2022, 2, 17), days_from_civil(2023, 7, 4),
                                   MinDay, MaxDay}
\* Instants as the server sends them, in milliseconds: noon of each day, the
\* instants of the tests, instants off noon, far from the epoch, and beyond
\* the years a datetime holds.
WireNoons == {MkInt(day, TwelveHours) : day \in Days}
WireInstants ==
    {MkInt(18789, 27129000), MkInt(0, 0), IntV(4003), MkInt(-1, MsPerDay - 1),
     MkInt(days_from_civil(2022, 2, 17), TwelveHours + 1),
     MkInt(120000, 1234567), MkInt(MinDay, 3600000),
     MkInt(MaxDay + 1, 0), MkInt(MinDay - 1, 0)}
WireScalars ==
    {NoneV, StrV("abc"), StrV("1623396729"), FloatV(3141200),
     datetime(2021, 6, 11, 7, 32, 9), date(2023, 7, 4)}
WirePeriod == DictV(<< <<"minutes", IntV(90)>>, <<"$type", StrV("PeriodValue")>> >>)
WireEnum == DictV(<< <<"name", StrV("High")>>, <<"$type", StrV("EnumBundleElement")>> >>)
\* The values sent under each `$type`: those of the field's kind, and some
\* of another kind.
WireValues(tag) ==
    CASE tag = "SimpleIssueCustomField" ->
           WireInstants \cup WireScalars \cup {MkInt(0, TwelveHours), WirePeriod}
      [] tag = "DateIssueCustomField" -> WireNoons \cup WireInstants \cup WireScalars
      [] tag = "PeriodIssueCustomField" -> {NoneV, WirePeriod, WireEnum}
      [] tag = "SingleEnumIssueCustomField" -> {NoneV, WireEnum, ListV(<<WireEnum>>), IntV(4003)}
      [] OTHER -> {NoneV, IntV(4003), WireEnum}

\* One custom field of a response; `value` and projectCustomField may be
\* left out.
WireField(tag, pcf, value) ==
    DictV(<< <<"projectCustomField", pcf>>, <<"value", value>>, <<"$type", StrV(tag)>> >>)
WireFields ==
    {WireField(tv[1], pcf, tv[2]) :
        tv \in UNION {{<<tag, value>> : value \in WireValues(tag)} : tag \in WireTags},
        pcf \in WireProjectCustomFields}
    \cup {DictV(<< <<"value", tv[2]>>, <<"$type", StrV(tv[1])>> >>) :
            tv \in UNION {{<<tag, value>> : value \in WireValues(tag)} : tag \in WireTags}}
    \cup {DictV(<< <<"projectCustomField", pcf>>, <<"$type", StrV(tag)>> >>) :
            tag \in WireTags, pcf \in WireProjectCustomFields}

\* The custom fields of a whole response.
ListedFields ==
    {WireField("SingleEnumIssueCustomField", NoneV, WireEnum),
     WireField("SimpleIssueCustomField",
               WireProjectCustomField(WireCustomField(WireFieldType(StrV("date and time")))),
               MkInt(18789, 27129000)),
     WireField("PeriodIssueCustomField", WireProjectCustomField(NoneV), NoneV),
     WireField("Bogus", NoneV, NoneV)}
WireFieldLists == {ListV(xs) : xs \in SeqUpTo(ListedFields, MaxFields)}

\* -------------------------------------------- inputs of custom_json_dumps

\* Longest sequence in a payload.
MaxItems == 2

Datetimes ==
    {datetime(2021, 2, 9, 14, 3, 11), datetime(2021, 6, 11, 7, 32, 9),
     datetime(2022, 2, 17, 0, 0, 0), datetime(2022, 2, 17, 12, 0, 0),
     DateTimeV(0, 0, 0), DateTimeV(0, 1000, 0), DateTimeV(0, 1001, 0),
     DateTimeV(12719, 85278916, 0), DateTimeV(-1, MsPerDay - 1, 0),
     DateTimeV(0, 0, 999), DateTimeV(MinDay, 0, 0), DateTimeV(MaxDay, MsPerDay - 1, 0)}
Dates == {DateV(day) : day \in Days}
\* What json writes itself, and what it cannot write.
JsonLeaves == {NoneV, IntV(4003), IntV(-5), IntV(0), StrV("x"), BoolV(TRUE)}
\* float("nan"), float("inf"), float("-inf"), and 1.5 and -0.25.
NonFiniteFloats == {SpecialFloat("nan"), SpecialFloat("inf"), SpecialFloat("-inf")}
Floats == NonFiniteFloats \cup {FloatV(1500000), FloatV(-250000)}
Leaves == Datetimes \cup Dates \cup JsonLeaves \cup Floats \cup {ModelV("PeriodValue", <<>>)}
Siblings == {IntV(1), date(2022, 2, 17), datetime(2021, 2, 9, 14, 3, 11), SpecialFloat("nan")}

Payloads ==
    Leaves
    \cup {DictV(<< <<"a", x>> >>) : x \in Leaves}
    \cup {DictV(<< <<"a", x>>, <<"b", y>> >>) : x \in Leaves, y \in Siblings}
    \cup {DictV(<< <<"a", DictV(<< <<"b", x>> >>)>> >>) : x \in Leaves}
    \cup {DictV(<< <<"a", ListV(<< DictV(<< <<"b", x>> >>) >>)>> >>) : x \in Leaves}
    \cup {TupleV(<<x>>) : x \in Leaves}
    \cup {ListV(xs) : xs \in SeqUpTo(Siblings \cup {NoneV}, MaxItems)}

\* ---------------------------------------------- inputs of the round trip

\* Longest sequence of custom fields held by an issue.
MaxHeld == 2

\* Cls(**args): the constructor validates its keyword arguments as
\* model_validate does a mapping (entities.py:9-13, populate_by_name).
construct(cls, args, smart) == validate_python(model_schema(cls), DictV(args), smart)

RECURSIVE NoUnset(_)
\* Every field of the instance is in model_fields_set, and so for every
\* instance it holds.
NoUnset(x) ==
    IF x.t = "model" THEN \A i \in 1..Len(x.v) : x.v[i].set /\ NoUnset(x.v[i].val)
    ELSE IF x.t \in {"list", "tuple"} THEN \A i \in 1..Len(x.v) : NoUnset(x.v[i])
    ELSE TRUE

\* project_custom_field with every field given, down to the id or to an
\* explicit None.
GivenProjectCustomFields ==
    {NoneV} \cup WholeProjectCustomFields
    \cup {WireProjectCustomField(NoneV), WireProjectCustomField(WireCustomField(NoneV)),
          WireProjectCustomField(WireCustomField(WireFieldType(NoneV)))}
GivenUser(name) ==
    DictV(<< <<"type", StrV("User")>>, <<"id", StrV("1-3")>>, <<"name", name>>,
             <<"ring_id", NoneV>>, <<"login", StrV("sam")>>, <<"email", NoneV>> >>)
GivenUsers == {GivenUser(NoneV), GivenUser(StrV("Sam"))}
GivenPeriod ==
    DictV(<< <<"type", StrV("PeriodValue")>>, <<"id", NoneV>>, <<"minutes", IntV(90)>>,
             <<"presentation", StrV("1h 30m")>> >>)
\* The classes of custom field constructed, and the values given to each.
GivenClasses ==
    {"SimpleIssueCustomField", "DateIssueCustomField", "PeriodIssueCustomField",
     "MultiUserIssueCustomField"}
GivenValues(cls) ==
    CASE cls = "SimpleIssueCustomField" ->
           {NoneV, StrV("abc"), IntV(4003), MkInt(18789, 27129000), FloatV(3141200),
            datetime(2021, 6, 11, 7, 32, 9)}
      [] cls = "DateIssueCustomField" ->
           {NoneV, date(2023, 7, 4), MkInt(days_from_civil(2022, 2, 17), TwelveHours)}
      [] cls = "PeriodIssueCustomField" -> {NoneV, GivenPeriod}
      [] cls = "MultiUserIssueCustomField" ->
           {ListV(xs) : xs \in SeqUpTo(GivenUsers, 1)}
           \cup {TupleV(xs) : xs \in SeqUpTo(GivenUsers, 1)}
           \cup {TupleV(<<GivenUser(NoneV), GivenUser(StrV("Sam"))>>)}
GivenCustomFields(cls) ==
    {<< <<"id", StrV("92-1")>>, <<"name", name>>, <<"project_custom_field", pcf>>,
        <<"type", StrV(cls)>>, <<"value", value>> >> :
        name \in {NoneV, StrV("Due")}, pcf \in GivenProjectCustomFields,
        value \in GivenValues(cls)}
\* The instances the constructor returns, no field of them unset.
Constructed(cls, given, smart) ==
    {x \in {construct(cls, args, smart) : args \in given} : x.t = "model" /\ NoUnset(x)}
CustomFields(cls, smart) == Constructed(cls, GivenCustomFields(cls), smart)

\* The custom fields an issue is given: one of each class.
HeldCustomFields(smart) ==
    {construct(f[1], << <<"id", StrV("92-1")>>, <<"name", NoneV>>,
                        <<"project_custom_field", f[2]>>, <<"type", StrV(f[1])>>,
                        <<"value", f[3]>> >>, smart) :
        f \in {<<"SimpleIssueCustomField",
                 WireProjectCustomField(WireCustomField(WireFieldType(StrV("date and time")))),
                 MkInt(18789, 27129000)>>,
               <<"DateIssueCustomField", NoneV, date(2023, 7, 4)>>,
               <<"PeriodIssueCustomField", WireProjectCustomField(NoneV), GivenPeriod>>,
               <<"MultiUserIssueCustomField", NoneV, TupleV(<<GivenUser(NoneV)>>)>>}}
GivenIssues(smart) ==
    {<< <<"type", StrV("Issue")>>, <<"id", StrV("2-1")>>, <<"id_readable", StrV("T-1")>>,
        <<"created", datetime(2021, 2, 9, 14, 3, 11)>>, <<"updated", NoneV>>,
        <<"resolved", resolved>>,
        <<"project", DictV(<< <<"type", StrV("Project")>>, <<"id", StrV("0-1")>>,
                              <<"name", NoneV>>, <<"short_name", StrV("T")>> >>)>>,
        <<"reporter", GivenUser(StrV("Sam"))>>, <<"updater", NoneV>>,
        <<"summary", StrV("abc")>>, <<"description", NoneV>>,
        <<"wikified_description", NoneV>>, <<"comments_count", IntV(0)>>,
        <<"tags", tags>>, <<"custom_fields", fields>> >> :
        resolved \in {DateTimeV(0, 1001, 0)},
        tags \in {NoneV,
                  ListV(<< DictV(<< <<"type", StrV("Tag")>>, <<"id", NoneV>>,
                                    <<"name", StrV("x")>> >>) >>)},
        fields \in {NoneV}
                   \cup {ListV(xs) : xs \in SeqUpTo(HeldCustomFields(smart), MaxHeld)}
                   \cup {TupleV(xs) : xs \in SeqUpTo(HeldCustomFields(smart), MaxHeld)}}
\* The classes whose instances are taken through the round trip.
RoundTripTargets == GivenClasses \cup {"Issue", "User"}
Entities(cls, smart) ==
    CASE cls = "Issue" -> Constructed(cls, GivenIssues(smart), smart)
      [] cls = "User" -> Constructed(cls, {u.v : u \in GivenUsers}, smart)
      [] OTHER -> CustomFields(cls, smart)

\* ------------------------------------------------- deep_update on objects

\* The interpreter's objects: `h` is the sequence of the dicts, lists and
\* tuples that exist, an object's place in it is its identity.  What a key
\* or a position holds is a reference to an object, or a value of a type
\* without state (None, int, str) taken as itself.
Ref(a) == [t |-> "ref", a |-> a]
IsContainer(x) == x.t \in {"dict", "list", "tuple"}
\* type(x) of what is held.
TypeAt(h, c) == IF c.t = "ref" THEN h[c.a].t ELSE c.t

RECURSIVE store(_, _, _)
RECURSIVE store_all(_, _, _, _)
RECURSIVE value_of(_, _)
RECURSIVE deepcopy_memo(_, _, _)
RECURSIVE deepcopy_items(_, _, _, _)
RECURSIVE deep_update_objects(_, _, _)
RECURSIVE starmap(_, _, _)
RECURSIVE set_items(_, _, _, _)

\* The object that is given: with `sharing` the one that exists already with
\* the same content (the caller has used one object in several places),
\* otherwise a new one.
place(h, object, sharing) ==
    IF sharing /\ \E a \in 1..Len(h) : h[a] = object
    THEN [heap |-> h, out |-> Ref(CHOOSE a \in 1..Len(h) : h[a] = object)]
    ELSE [heap |-> Append(h, object), out |-> Ref(Len(h) + 1)]
\* The argument x of a call as the caller has built it.
store(h, x, sharing) ==
    IF ~IsContainer(x) THEN [heap |-> h, out |-> x]
    ELSE With(store_all(h, x, Len(x.v), sharing),
              LAMBDA s : place(s.heap, [t |-> x.t, v |-> s.out], sharing))
store_all(h, x, n, sharing) ==
    IF n = 0 THEN [heap |-> h, out |-> <<>>]
    ELSE With(store_all(h, x, n - 1, sharing), LAMBDA s :
         With(store(s.heap, IF x.t = "dict" THEN x.v[n][2] ELSE x.v[n], sharing), LAMBDA e :
              [heap |-> e.heap,
               out |-> Append(s.out, IF x.t = "dict" THEN <<x.v[n][1], e.out>> ELSE e.out)]))
\* What is held, read with all it holds: the value that `==` compares.
value_of(h, c) ==
    IF c.t # "ref" THEN c
    ELSE IF h[c.a].t = "dict"
    THEN DictV([i \in 1..Len(h[c.a].v) |->
                    <<h[c.a].v[i][1], value_of(h, h[c.a].v[i][2])>>])
    ELSE [t |-> h[c.a].t, v |-> [i \in 1..Len(h[c.a].v) |-> value_of(h, h[c.a].v[i])]]

\* helpers.py:15: copy.deepcopy.  A value without state is returned itself;
\* an object copied before in this call (memo) gives the same copy again; a
\* dict and a list give a new object holding the copies of what they hold; a
\* tuple gives itself when every copy of what it holds is what it holds.
deepcopy_memo(h, c, memo) ==
    IF c.t # "ref" THEN [heap |-> h, out |-> c, memo |-> memo]
    ELSE IF \E p \in memo : p[1] = c.a
    THEN [heap |-> h, out |-> Ref((CHOOSE p \in memo : p[1] = c.a)[2]), memo |-> memo]
    ELSE With(deepcopy_items(h, h[c.a], Len(h[c.a].v), memo), LAMBDA s :
              IF h[c.a].t = "tuple" /\ s.out = h[c.a].v
              THEN [heap |-> s.heap, out |-> c, memo |-> s.memo]
              ELSE [heap |-> Append(s.heap, [t |-> h[c.a].t, v |-> s.out]),
                    out |-> Ref(Len(s.heap) + 1),
                    memo |-> s.memo \cup {<<c.a, Len(s.heap) + 1>>}])
deepcopy_items(h, object, n, memo) ==
    IF n = 0 THEN [heap |-> h, out |-> <<>>, memo |-> memo]
    ELSE With(deepcopy_items(h, object, n - 1, memo), LAMBDA s :
         With(deepcopy_memo(s.heap, IF object.t = "dict" THEN object.v[n][2] ELSE object.v[n],
                            s.memo), LAMBDA e :
              [heap |-> e.heap, memo |-> e.memo,
               out |-> Append(s.out, IF object.t = "dict" THEN <<object.v[n][1], e.out>>
                                     ELSE e.out)]))
\* result = dest: no copy is taken.
deepcopy_nothing(h, c) == [heap |-> h, out |-> c]
deepcopy(h, c) ==
    With(deepcopy_memo(h, c, {}), LAMBDA s : [heap |-> s.heap, out |-> s.out])

\* helpers.py:25, 32, 34: result[key] = ..., on the dict `result` refers to.
setitem(h, result, key, c) ==
    [heap |-> [h EXCEPT ![result.a].v = Put(@, key, c)], out |-> result]

\* helpers.py:19-34: the body of the loop for one (key, value), `result`
\* referring to a dict.
set_item(h, result, key, value) ==
    LET has == HasKey(h[result.a].v, key)
        old == Get(h[result.a].v, key)
    IN  IF has /\ types_differ([t |-> TypeAt(h, old)], [t |-> TypeAt(h, value)])
        THEN [heap |-> h, out |-> TypeMismatch(key, TypeAt(h, old), TypeAt(h, value))]
        ELSE IF has /\ TypeAt(h, value) = "dict"
        THEN With(deep_update_objects(h, old, <<value>>), LAMBDA r :
                  IF IsError(r.out) THEN r ELSE setitem(r.heap, result, key, r.out))
        ELSE IF has /\ TypeAt(h, value) = "list"
        THEN IF lengths_differ(h[old.a], h[value.a])
             THEN [heap |-> h,
                   out |-> LengthMismatch(key, Len(h[old.a].v), Len(h[value.a].v))]
             ELSE With(starmap(h, h[old.a].v, h[value.a].v), LAMBDA r :
                       IF IsError(r.out) THEN r
                       ELSE setitem(Append(r.heap, r.out), result, key, Ref(Len(r.heap) + 1)))
        ELSE setitem(h, result, key, value)

\* helpers.py:32: list(starmap(deep_update, zip(result[key], value))), the
\* new list before it is an object.
starmap(h, xs, ys) ==
    IF xs = <<>> \/ ys = <<>> THEN [heap |-> h, out |-> ListV(<<>>)]
    ELSE With(deep_update_objects(h, Head(xs), <<Head(ys)>>), LAMBDA e :
              IF IsError(e.out) THEN e
              ELSE With(starmap(e.heap, Tail(xs), Tail(ys)), LAMBDA r :
                        IF IsError(r.out) THEN r
                        ELSE [heap |-> r.heap, out |-> ListV(<<e.out>> \o r.out.v)]))

\* helpers.py:18-34: the first n items of source.items() applied to result.
set_items(h, result, items, n) ==
    IF n = 0 THEN [heap |-> h, out |-> result]
    ELSE With(set_items(h, result, items, n - 1), LAMBDA s :
              IF IsError(s.out) THEN s
              ELSE IF TypeAt(s.heap, result) # "dict"
              THEN [heap |-> s.heap, out |-> NotSubscriptable]
              ELSE set_item(s.heap, result, items[n][1], items[n][2]))

\* helpers.py:17-34: the loop over the mappings, result being the copy.
RECURSIVE over_mappings(_, _, _)
over_mappings(h, result, ms) ==
    IF ms = <<>> THEN [heap |-> h, out |-> result]
    ELSE IF TypeAt(h, Head(ms)) # "dict" THEN [heap |-> h, out |-> NoItems]
    ELSE With(set_items(h, result, h[Head(ms).a].v, Len(h[Head(ms).a].v)), LAMBDA s :
              IF IsError(s.out) THEN s ELSE over_mappings(s.heap, result, Tail(ms)))

\* helpers.py:10-36: deep_update(dest, *mappings) on the objects: the
\* objects after the call and what the call gives, a reference to the
\* result or the exception.
deep_update_objects(h, d, ms) ==
    With(deepcopy(h, d), LAMBDA s : over_mappings(s.heap, s.out, ms))

\* ------------------------------------------ the calls of model_to_fields

\* The frames the interpreter has left when model_to_fields is called.
FramesLeft == 16

\* What ends model_to_fields: it returns; schema["properties"] finds no
\* such key (helpers.py:64); the interpreter has no frame left for a call.
Returned == [t |-> "returned"]
NoProperties == [t |-> "KeyError", why |-> "properties"]
RecursionError == [t |-> "RecursionError"]

\* A call schema_to_fields(definitions[cls]), or of the model's own schema.
SchemaCall(cls) == [k |-> "schema", cls |-> cls]
\* The classes the schema of `cls` refers to, at any depth of its types.
RECURSIVE RefsIn(_)
RefsIn(field_type) ==
    CASE field_type.k = "$ref" -> {field_type.ref}
      [] field_type.k = "array" -> RefsIn(field_type.items)
      [] field_type.k \in {"anyOf", "allOf", "oneOf"} ->
           UNION {RefsIn(field_type.of[i]) : i \in 1..Len(field_type.of)}
      [] OTHER -> {}
Refers(defs, cls) == UNION {RefsIn(defs[cls][i][2]) : i \in 1..Len(defs[cls])}
\* The classes reached from `cls` over at most n references, one at least.
RECURSIVE ReachedIn(_, _, _)
ReachedIn(defs, cls, n) ==
    IF n = 0 THEN {}
    ELSE Refers(defs, cls) \cup UNION {ReachedIn(defs, c, n - 1) : c \in Refers(defs, cls)}
Reached(defs, cls) == ReachedIn(defs, cls, Cardinality(DOMAIN defs))

\* helpers.py:55-64: the calls one call makes, in order: schema_to_fields
\* calls type_to_fields for each property, type_to_fields calls
\* schema_to_fields for a $ref, itself for the items of an array and for
\* each alternative.
called_no_ref(defs, c) ==
    CASE c.k = "schema" -> [i \in 1..Len(defs[c.cls]) |-> defs[c.cls][i][2]]
      [] c.k = "array" -> <<c.items>>
      [] c.k \in {"anyOf", "allOf", "oneOf"} -> c.of
      [] OTHER -> <<>>
called(defs, c) ==
    CASE c.k = "schema" -> [i \in 1..Len(defs[c.cls]) |-> defs[c.cls][i][2]]
      [] c.k = "$ref" -> <<SchemaCall(c.ref)>>
      [] c.k = "array" -> <<c.items>>
      [] c.k \in {"anyOf", "allOf", "oneOf"} -> c.of
      [] OTHER -> <<>>
\* A call in progress and the calls it has still to make.
Frame(defs, c) == [call |-> c, todo |-> called(defs, c)]

\* ------------------------------------------------------------------ calls

\* No call of deep_update, of obj_to_dict, of model_to_field_names, no
\* decoding, no call of custom_json_dumps.
NoMerge == dest = DictV(<<>>) /\ mappings = <<>> /\ merged = Pending
NoDump == obj = NoneV /\ tupleDump = "list" /\ dumped = Pending
NoFields == model = NoneV /\ fieldsDict = Pending /\ fieldNames = Pending
NoDecode ==
    /\ target = "IssueCustomFieldType" /\ response = NoneV
    /\ unionMode = "strict first" /\ decoded = Pending
NoEncode == payload = NoneV /\ encoded = Pending
NoRedump == calls = <<>>
NoOperation ==
    /\ client = NoneV /\ operation = NoneV /\ reply = NoneV
    /\ requests = <<>> /\ received = Pending /\ returned = Pending
NoUpdate == heap = <<>> /\ held = NoneV /\ updated = Pending
NoWalk == definitions = <<>> /\ frames = <<>> /\ walked = Pending
NoOtherCall == NoRedump /\ NoOperation /\ NoUpdate /\ NoWalk

InitMerge ==
    /\ dest \in Mappings
    /\ mappings \in MappingLists
    /\ merged = Pending
    /\ NoDump /\ NoFields /\ NoDecode /\ NoEncode /\ NoOtherCall

\* A call deep_update(dest, *mappings), its result or its exception.
Merge ==
    /\ mappings # <<>>
    /\ merged = Pending
    /\ merged' = deep_update(dest, mappings)
    /\ UNCHANGED <<obj, tupleDump, dumped, model, fieldsDict, fieldNames>>
    /\ UNCHANGED <<target, response, unionMode, decoded, payload, encoded>>
    /\ UNCHANGED <<dest, mappings>>
    /\ UNCHANGED otherVars

NextMerge == Merge

SpecMerge == InitMerge /\ [][NextMerge]_vars

InitDump ==
    /\ obj \in Instances \cup {NoneV}
    /\ tupleDump \in TupleDumps
    /\ dumped = Pending
    /\ NoMerge /\ NoFields /\ NoDecode /\ NoEncode /\ NoOtherCall

\* A call obj_to_dict(obj), its result or its exception.
Dump ==
    /\ dumped = Pending
    /\ dumped' = obj_to_dict(obj, tupleDump)
    /\ UNCHANGED <<dest, mappings, merged, model, fieldsDict, fieldNames>>
    /\ UNCHANGED <<target, response, unionMode, decoded, payload, encoded>>
    /\ UNCHANGED <<obj, tupleDump>>
    /\ UNCHANGED otherVars

NextDump == Dump

SpecDump == InitDump /\ [][NextDump]_vars

\* The type as the caller wrote it: a class, or a union in one of its forms.
InitFields ==
    /\ model \in [form : {"A"}, members : {<<c>> : c \in ModelClasses}]
                 \cup [form : UnionForms, members : MemberLists]
    /\ fieldsDict = Pending
    /\ fieldNames = Pending
    /\ NoMerge /\ NoDump /\ NoDecode /\ NoEncode /\ NoOtherCall

\* The type object the caller's expression evaluates to.
TypeOf(m) == IF m.form = "A" THEN ClassT(m.members[1]) ELSE Written(m.form, m.members)

\* A call model_to_field_names(model), its result or its exception.
FieldNames ==
    /\ model # NoneV
    /\ fieldNames = Pending
    /\ fieldsDict' = fields_dict(TypeOf(model))
    /\ fieldNames' = model_to_field_names(TypeOf(model))
    /\ UNCHANGED <<dest, mappings, merged, obj, tupleDump, dumped, model>>
    /\ UNCHANGED <<target, response, unionMode, decoded, payload, encoded>>
    /\ UNCHANGED otherVars

NextFields == FieldNames

SpecFields == InitFields /\ [][NextFields]_vars

\* The type a response is decoded to, as a validation schema: the union
\* (client.py:252), the tuple of the union (client.py:230), or one entity
\* class (Model.model_validate, client.py:146).
SchemaOf(tp) ==
    CASE tp = "IssueCustomFieldType" -> union_schema(ModelChoices(IssueCustomFieldType))
      [] tp = "tuple[IssueCustomFieldType, ...]" ->
           tuple_variable_schema(union_schema(ModelChoices(IssueCustomFieldType)))
      [] OTHER -> model_schema(tp)

InitDecode ==
    /\ \/ target = "IssueCustomFieldType" /\ response \in WireFields
       \/ /\ target \in EntityTargets
          /\ response \in {f \in WireFields : Get(f.v, "$type") = StrV(target)}
       \/ target = "tuple[IssueCustomFieldType, ...]" /\ response \in WireFieldLists
    /\ unionMode \in SmartModes
    /\ decoded = Pending
    /\ NoMerge /\ NoDump /\ NoFields /\ NoEncode /\ NoOtherCall

\* The response decoded: the instance, or what is raised.
Decode ==
    /\ response # NoneV
    /\ decoded = Pending
    /\ decoded' = validate_python(SchemaOf(target), response, unionMode)
    /\ UNCHANGED <<dest, mappings, merged, obj, tupleDump, dumped, model, fieldsDict, fieldNames>>
    /\ UNCHANGED <<target, response, unionMode, payload, encoded>>
    /\ UNCHANGED otherVars

NextDecode == Decode

SpecDecode == InitDecode /\ [][NextDecode]_vars

InitEncode ==
    /\ payload \in Payloads
    /\ encoded = Pending
    /\ NoMerge /\ NoDump /\ NoFields /\ NoDecode /\ NoOtherCall

\* A call custom_json_dumps(payload): the text, or what is raised.
Encode ==
    /\ payload # NoneV
    /\ encoded = Pending
    /\ encoded' = custom_json_dumps(payload)
    /\ UNCHANGED <<dest, mappings, merged, obj, tupleDump, dumped, model, fieldsDict, fieldNames>>
    /\ UNCHANGED <<target, response, unionMode, decoded, payload>>
    /\ UNCHANGED otherVars

NextEncode == Encode

SpecEncode == InitEncode /\ [][NextEncode]_vars

\* Most calls of obj_to_dict and obj_to_json on one instance.
MaxCalls == 2

InitRedump ==
    /\ obj \in Instances \cup {NoneV}
    /\ tupleDump \in TupleDumps
    /\ dumped = Pending
    /\ calls = <<>>
    /\ NoMerge /\ NoFields /\ NoDecode /\ NoEncode /\ NoOperation /\ NoUpdate /\ NoWalk

\* One more call of obj_to_dict(obj) and of obj_to_json(obj) on the same
\* instance: neither assigns to the instance (helpers.py:91-94, 116).
Redump ==
    /\ Len(calls) < MaxCalls
    /\ calls' = Append(calls, [dict |-> obj_to_dict(obj, tupleDump),
                               json |-> obj_to_json(obj, tupleDump)])
    /\ UNCHANGED <<dest, mappings, merged, obj, tupleDump, dumped, model, fieldsDict, fieldNames>>
    /\ UNCHANGED <<target, response, unionMode, decoded, payload, encoded>>
    /\ UNCHANGED <<clientVars, heapVars, walkVars>>

NextRedump == Redump

SpecRedump == InitRedump /\ [][NextRedump]_vars

\* An entity instance, on one build of pydantic: obj_to_dict(obj), then the
\* result validated as the class of the instance.
InitRoundTrip ==
    /\ unionMode \in SmartModes
    /\ tupleDump \in TupleDumps
    /\ target \in RoundTripTargets
    /\ obj \in Entities(target, unionMode)
    /\ dumped = Pending
    /\ response = NoneV
    /\ decoded = Pending
    /\ NoMerge /\ NoFields /\ NoEncode /\ NoOtherCall

\* type(obj).model_validate(obj_to_dict(obj)) (client.py:213): the
\* instance, or what either of the two calls raises.
Revalidate ==
    /\ obj.t = "model" /\ obj.cls = target
    /\ dumped # Pending
    /\ decoded = Pending
    /\ decoded' = IF IsError(dumped) THEN dumped
                  ELSE validate_python(SchemaOf(target), dumped, unionMode)
    /\ UNCHANGED <<dest, mappings, merged, obj, tupleDump, dumped, model, fieldsDict, fieldNames>>
    /\ UNCHANGED <<target, response, unionMode, payload, encoded>>
    /\ UNCHANGED otherVars

NextRoundTrip == Dump \/ Revalidate

SpecRoundTrip == InitRoundTrip /\ [][NextRoundTrip]_vars

\* -------------------------------------------------------------- the client

\* requests.exceptions.ConnectTimeout, raised by Session.request.
ConnectTimeout == [t |-> "ConnectTimeout"]
\* A requests.Response: the status code and the content.
Response(status_code, content) ==
    [t |-> "response", status_code |-> status_code, content |-> content]
\* exceptions.py:4-13
YouTrackNotFound == [t |-> "YouTrackNotFound"]
YouTrackUnauthorized == [t |-> "YouTrackUnauthorized"]
YouTrackException(why) == [t |-> "YouTrackException", why |-> why]
JSONDecodeError == [t |-> "JSONDecodeError"]
\* What leaves a call as an exception.
IsException(x) ==
    x.t \in {"ConnectTimeout", "YouTrackNotFound", "YouTrackUnauthorized", "YouTrackException",
             "JSONDecodeError", "ValidationError", "TypeError", "ValueError",
             "AttributeError", "RuntimeError", "OverflowError"}

\* client.py:31-51: Client(base_url=..., token=..., timeout=...).
Client(base_url, timeout) == [t |-> "Client", _base_url |-> base_url, _timeout |-> timeout]

\* Response.raise_for_status: HTTPError for a status from 400 to 599.
raise_for_status(resp) == 400 <= resp.status_code /\ resp.status_code < 600

\* Response.json (client.py:113) on the contents the transport of the model
\* returns: the value json parses it to, JSONDecodeError for any other text.
json(resp) ==
    CASE resp.content = "null" -> NoneV
      [] resp.content = "{}" -> DictV(<<>>)
      [] resp.content = "[]" -> ListV(<<>>)
      [] resp.content = "{\"id\": \"2-1\", \"$type\": \"Issue\"}" ->
           DictV(<< <<"id", StrV("2-1")>>, <<"$type", StrV("Issue")>> >>)
      [] resp.content = "[{\"value\": null, \"$type\": \"PeriodIssueCustomField\"}]" ->
           ListV(<< DictV(<< <<"value", NoneV>>, <<"$type", StrV("PeriodIssueCustomField")>> >>) >>)
      [] OTHER -> JSONDecodeError

\* client.py:110-116: the body of a response whose status is no error.
body_of(resp) ==
    IF Len(resp.content) = 0 THEN NoneV
    ELSE IF json(resp) = JSONDecodeError
    THEN YouTrackException("Failed to decode response")
    ELSE json(resp)

\* The status read only after the 404 test: 401 and the other error
\* statuses taken for success.
of_response_not_found_only(resp) ==
    IF resp.status_code = 404 THEN YouTrackNotFound ELSE body_of(resp)
\* client.py:94-116: what _send_request makes of the response.
of_response(resp) ==
    IF resp.status_code = 404 THEN YouTrackNotFound
    ELSE IF resp.status_code = 401 THEN YouTrackUnauthorized
    ELSE IF raise_for_status(resp) THEN YouTrackException("Unexpected status code")
    ELSE body_of(resp)

\* client.py:85-92: self._session.request(...), once: the request the
\* transport is given, and the response handled or the exception the
\* transport raises.
session_request_twice(self, method, url, body, answer) ==
    [requests |-> << [method |-> method, url |-> url, data |-> body, files |-> NoneV,
                      headers |-> IF body = NoneV THEN NoneV ELSE StrV("application/json"),
                      timeout |-> self._timeout],
                     [method |-> method, url |-> url, data |-> body, files |-> NoneV,
                      headers |-> IF body = NoneV THEN NoneV ELSE StrV("application/json"),
                      timeout |-> self._timeout] >>,
     received |-> IF answer.t = "response" THEN of_response(answer) ELSE answer]
session_request(self, method, url, body, answer) ==
    [requests |-> << [method |-> method, url |-> url, data |-> body, files |-> NoneV,
                      headers |-> IF body = NoneV THEN NoneV ELSE StrV("application/json"),
                      timeout |-> self._timeout] >>,
     received |-> IF answer.t = "response" THEN of_response(answer) ELSE answer]

\* client.py:77-116: _send_request; `data and obj_to_json(data)` is worked
\* out before the request is made, and what it raises leaves the call; the
\* body is the text written, None when there is no data.
\* The url is held without its query.
_send_request(self, method, url, data, answer, tuples) ==
    IF data = NoneV THEN session_request(self, method, url, NoneV, answer)
    ELSE With(obj_to_json(data, tuples), LAMBDA body :
            IF IsException(body) THEN [requests |-> <<>>, received |-> body]
            ELSE session_request(self, method, url, body, answer))

\* client.py:118-136
_get(self, url, answer, tuples) == _send_request(self, "GET", url, NoneV, answer, tuples)
_post(self, url, data, answer, tuples) == _send_request(self, "POST", url, data, answer, tuples)
_delete(self, url, answer, tuples) == _send_request(self, "DELETE", url, NoneV, answer, tuples)

\* The requests made, what _send_request gave and what the caller gets of
\* a call that validates the body as `tp`.
validated(sent, tp, smart) ==
    [requests |-> sent.requests, received |-> sent.received,
     returned |-> IF IsException(sent.received) THEN sent.received
                  ELSE validate_python(SchemaOf(tp), sent.received, smart)]
\* The same of a call that hands on what _send_request gives.
passed(sent) ==
    [requests |-> sent.requests, received |-> sent.received, returned |-> sent.received]
\* The same of a call whose value is dropped.
dropped(sent) ==
    [requests |-> sent.requests, received |-> sent.received,
     returned |-> IF IsException(sent.returned) THEN sent.returned ELSE NoneV]
\* A call that makes no request.
unsent(value) == [requests |-> <<>>, received |-> Pending, returned |-> value]

\* client.py:316-336
update_issue_comment(self, issue_id, comment, answer, tuples, smart) ==
    validated(_post(self, self._base_url \o "/api/issues/" \o issue_id \o "/comments/"
                          \o getattr(comment, "id").v, comment, answer, tuples),
              "IssueComment", smart)

\* The public operations of Client (client.py:138-683) that the model
\* calls, each with the requests made and the outcome.
operate(self, op, answer, tuples, smart) ==
    CASE op.name = "get_absolute_url" ->                     \* client.py:138-139
           unsent(StrV(self._base_url \o "/issue/1"))
      [] op.name = "get_issue" ->                            \* client.py:141-153
           validated(_get(self, self._base_url \o "/api/issues/1", answer, tuples),
                     "Issue", smart)
      [] op.name = "get_issue_custom_fields" ->              \* client.py:219-239
           validated(_get(self, self._base_url \o "/api/issues/1/customFields", answer, tuples),
                     "tuple[IssueCustomFieldType, ...]", smart)
      [] op.name = "update_issue_custom_field" ->            \* client.py:241-261
           validated(_post(self, self._base_url \o "/api/issues/1/customFields/"
                                 \o getattr(op.data, "id").v, op.data, answer, tuples),
                     "IssueCustomFieldType", smart)
      [] op.name = "delete_issue" ->                         \* client.py:263-272
           dropped(passed(_delete(self, self._base_url \o "/api/issues/1", answer, tuples)))
      [] op.name = "hide_issue_comment" ->                   \* client.py:338-346
           dropped(update_issue_comment(self, "1",
                       construct("IssueComment",
                                 << <<"id", StrV("4-7")>>, <<"deleted", BoolV(TRUE)>> >>, smart),
                       answer, tuples, smart))

\* The timeouts a client is made with, the operations called and what the
\* transport does.
Timeouts == {NoneV, IntV(123)}
StatusCodes == {200, 201, 204, 304, 400, 401, 403, 404, 500, 599}
Contents ==
    {"", "null", "{}", "[]", "{\"id\": \"2-1\", \"$type\": \"Issue\"}",
     "[{\"value\": null, \"$type\": \"PeriodIssueCustomField\"}]", "<html>", "{"}
Answers == {ConnectTimeout} \cup {Response(s, c) : s \in StatusCodes, c \in Contents}
GivenFields(smart) ==
    {construct("SimpleIssueCustomField",
               << <<"id", StrV("92-1")>>, <<"value", v>> >>, smart) :
        v \in {StrV("abc"), SpecialFloat("nan"), datetime(2021, 6, 11, 7, 32, 9)}}
Operations(smart) ==
    [name : {"get_absolute_url", "get_issue", "get_issue_custom_fields", "delete_issue",
             "hide_issue_comment"}, data : {NoneV}]
    \cup [name : {"update_issue_custom_field"}, data : GivenFields(smart)]

InitOperation ==
    /\ unionMode \in SmartModes
    /\ tupleDump \in TupleDumps
    /\ client \in {Client("https://server", timeout) : timeout \in Timeouts}
    /\ operation \in Operations(unionMode)
    /\ reply \in Answers
    /\ requests = <<>>
    /\ received = Pending
    /\ returned = Pending
    /\ obj = NoneV /\ dumped = Pending
    /\ target = "IssueCustomFieldType" /\ response = NoneV /\ decoded = Pending
    /\ NoMerge /\ NoFields /\ NoEncode /\ NoRedump /\ NoUpdate /\ NoWalk

\* One operation called on the client: the requests the transport is
\* given, and what the caller gets.
Operate ==
    /\ operation # NoneV
    /\ returned = Pending
    /\ requests' = operate(client, operation, reply, tupleDump, unionMode).requests
    /\ received' = operate(client, operation, reply, tupleDump, unionMode).received
    /\ returned' = operate(client, operation, reply, tupleDump, unionMode).returned
    /\ UNCHANGED <<dest, mappings, merged, obj, tupleDump, dumped, model, fieldsDict, fieldNames>>
    /\ UNCHANGED <<target, response, unionMode, decoded, payload, encoded>>
    /\ UNCHANGED <<calls, client, operation, reply, heapVars, walkVars>>

NextOperation == Operate

SpecOperation == InitOperation /\ [][NextOperation]_vars

\* Any one of the calls.
\* The mappings given as objects: under "a" a scalar, a mapping, a list of
\* mappings and scalars, a list of mappings that hold a list, a tuple; under
\* "b" a list.
HeldValues ==
    {IntV(1)} \cup SmallDicts \cup DeepLists \cup Tuples
    \cup {ListV(xs) : xs \in SeqUpTo({DictV(<< <<"a", NoneV>> >>), IntV(1)}, MaxLen)}
HeldMappings ==
    {DictV(<<>>)}
    \cup {DictV(<< <<"a", x>> >>) : x \in HeldValues}
    \cup {DictV(<< <<"a", x>>, <<"b", y>> >>) :
            x \in HeldValues, y \in {ListV(<<IntV(1)>>), ListV(<<>>)}}
HeldMappingLists ==
    {<<m>> : m \in HeldMappings}
    \cup UNION {[1..k -> LaterMappings] : k \in 2..MaxMappings}

\* The arguments of a call as objects: dest, then the mappings.
Arguments(d, ms, sharing) == store_all(<<>>, TupleV(<<d>> \o ms), Len(ms) + 1, sharing)

InitUpdate ==
    /\ dest \in HeldMappings
    /\ mappings \in HeldMappingLists
    /\ merged = Pending
    /\ \E sharing \in BOOLEAN :
          /\ heap = Arguments(dest, mappings, sharing).heap
          /\ held = TupleV(Arguments(dest, mappings, sharing).out)
    /\ updated = Pending
    /\ NoDump /\ NoFields /\ NoDecode /\ NoEncode /\ NoRedump /\ NoOperation /\ NoWalk

\* A call deep_update(dest, *mappings) on the objects held.
Update ==
    /\ held # NoneV
    /\ updated = Pending
    /\ heap' = deep_update_objects(heap, Head(held.v), Tail(held.v)).heap
    /\ updated' = deep_update_objects(heap, Head(held.v), Tail(held.v)).out
    /\ UNCHANGED <<dest, mappings, merged, obj, tupleDump, dumped, model, fieldsDict, fieldNames>>
    /\ UNCHANGED <<target, response, unionMode, decoded, payload, encoded>>
    /\ UNCHANGED <<calls, clientVars, held, walkVars>>

NextUpdate == Update

SpecUpdate == InitUpdate /\ [][NextUpdate]_vars

\* The schemas walked: those of the classes of the repository, and every
\* schema of three classes with at most one property each, which is plain,
\* a reference, an array of references, Optional of a reference, or a union
\* of two classes.
WalkedClasses == {"A", "B", "C"}
WalkedTypes ==
    {Plain}
    \cup {RefS(c) : c \in WalkedClasses}
    \cup {ArrayS(RefS(c)) : c \in WalkedClasses}
    \cup {Nullable(RefS(c)) : c \in WalkedClasses}
    \cup {AnyOf(<<RefS(c), RefS(d)>>) : c, d \in WalkedClasses}
RepositoryClasses ==
    ModelClasses \cup {"PeriodValue", "FieldType"}
    \cup {ProjectCustomFieldType[i] : i \in 1..Len(ProjectCustomFieldType)}
RepositoryDefinitions == [c \in RepositoryClasses |-> Properties(c)]

InitWalk ==
    /\ \/ /\ definitions \in [WalkedClasses -> {<<>>} \cup {<< <<"x", tp>> >> : tp \in WalkedTypes}]
          /\ model = [form |-> "A", members |-> <<"A">>]
       \/ /\ definitions = RepositoryDefinitions
          /\ model \in [form : {"A"}, members : {<<c>> : c \in ModelClasses}]
    /\ frames = <<>>
    /\ walked = Pending
    /\ fieldsDict = Pending /\ fieldNames = Pending
    /\ NoMerge /\ NoDump /\ NoDecode /\ NoEncode /\ NoRedump /\ NoOperation /\ NoUpdate

WalkFrame ==
    /\ UNCHANGED <<dest, mappings, merged, obj, tupleDump, dumped, model, fieldsDict, fieldNames>>
    /\ UNCHANGED <<target, response, unionMode, decoded, payload, encoded>>
    /\ UNCHANGED <<calls, clientVars, heapVars, definitions>>

\* helpers.py:50, 66: model_to_fields(m) takes the schema of m and calls
\* schema_to_fields on it.  model_json_schema puts a model that refers to
\* itself under "$defs" and gives {"$ref": ...} with no "properties".
Enter ==
    /\ model # NoneV /\ definitions # <<>>
    /\ frames = <<>> /\ walked = Pending
    /\ IF model.members[1] \in Reached(definitions, model.members[1])
       THEN frames' = <<>> /\ walked' = NoProperties
       ELSE /\ frames' = <<Frame(definitions, SchemaCall(model.members[1]))>>
            /\ walked' = Pending
    /\ WalkFrame

\* The call in progress makes its next call.
Call ==
    /\ frames # <<>>
    /\ frames[Len(frames)].todo # <<>>
    /\ IF Len(frames) >= FramesLeft
       THEN frames' = <<>> /\ walked' = RecursionError
       ELSE /\ frames' = Append([frames EXCEPT ![Len(frames)].todo = Tail(@)],
                                Frame(definitions, Head(frames[Len(frames)].todo)))
            /\ walked' = Pending
    /\ WalkFrame

\* The call in progress has made its calls and returns.
Return ==
    /\ frames # <<>>
    /\ frames[Len(frames)].todo = <<>>
    /\ frames' = SubSeq(frames, 1, Len(frames) - 1)
    /\ walked' = IF Len(frames) = 1 THEN Returned ELSE Pending
    /\ WalkFrame

NextWalk == Enter \/ Call \/ Return

\* The interpreter goes on with a call that is in progress.
SpecWalk == InitWalk /\ [][NextWalk]_vars /\ WF_vars(NextWalk)

Init ==
    \/ InitUpdate \/ InitWalk
    \/ InitMerge \/ InitDump \/ InitFields \/ InitDecode \/ InitEncode \/ InitRoundTrip
    \/ InitRedump \/ InitOperation
Next ==
    \/ Merge \/ Dump \/ FieldNames \/ Decode \/ Encode \/ Revalidate \/ Redump
    \/ Operate \/ Update \/ Enter \/ Call \/ Return
Spec == Init /\ [][Next]_vars

\* ------------------------------------------------- claims on deep_update

MergeDone == merged # Pending
\* deep_update(A, B): one source mapping.
OneSource == Len(mappings) = 1

\* The result accumulated when the loop comes to item i of mapping m.
AccBefore(m, i) ==
    accumulate(deep_update(dest, SubSeq(mappings, 1, m - 1)), mappings[m].v, i - 1)
\* The (mapping, item) positions of the call.
Steps ==
    {p \in (1..Len(mappings)) \X (1..Cardinality(KeyNames)) : p[2] <= Len(mappings[p[1]].v)}
StepKey(p) == mappings[p[1]].v[p[2]][1]
StepValue(p) == mappings[p[1]].v[p[2]][2]
\* The loop comes to position p with the key already in the result.
KeyOnBothSides(p) ==
    LET acc == AccBefore(p[1], p[2])
    IN  ~IsError(acc) /\ acc.t = "dict" /\ HasKey(acc.v, StepKey(p))
StepOld(p) == Get(AccBefore(p[1], p[2]).v, StepKey(p))

\* The merge of two list elements under the rule of the keys: two mappings
\* merge recursively, anything else takes the source's element.
ElementMerge(x, y) ==
    IF x.t = "dict" /\ y.t = "dict" THEN deep_update(x, <<y>>) ELSE y

\* C4 as stated: deep_update(A, B) returns a mapping over the union of the
\* keys; only-A keys keep A's value, only-B keys take B's, a key with a
\* mapping on both sides takes the recursive merge, any other key on both
\* sides takes B's value.
C4_AnyOtherKeyTakesSource ==
    (MergeDone /\ OneSource) =>
        LET A == dest.v
            B == mappings[1].v
        IN  /\ merged.t = "dict"
            /\ Keys(merged.v) = Keys(A) \cup Keys(B)
            /\ \A k \in Keys(A) \ Keys(B) : Get(merged.v, k) = Get(A, k)
            /\ \A k \in Keys(B) \ Keys(A) : Get(merged.v, k) = Get(B, k)
            /\ \A k \in Keys(A) \cap Keys(B) :
                  IF Get(A, k).t = "dict" /\ Get(B, k).t = "dict"
                  THEN Get(merged.v, k) = deep_update(Get(A, k), <<Get(B, k)>>)
                  ELSE Get(merged.v, k) = Get(B, k)

\* C4 as amended: whenever deep_update(A, B) returns, the result is a
\* mapping over the union of the keys; only-A keys keep A's value, only-B
\* keys take B's, a key with a mapping on both sides takes the recursive
\* merge, a key with a list on both sides takes the list of the merged
\* elements, any other key on both sides takes B's value.  It raises, and
\* returns nothing, when some key on both sides has values of different
\* types or lists of different lengths.
C4_MergeWhenReturned ==
    (MergeDone /\ OneSource) =>
        LET A == dest.v
            B == mappings[1].v
            both == Keys(A) \cap Keys(B)
        IN  /\ (\E k \in both :
                    \/ Get(A, k).t # Get(B, k).t
                    \/ /\ Get(A, k).t = "list"
                       /\ Len(Get(A, k).v) # Len(Get(B, k).v))
                => IsError(merged)
            /\ ~IsError(merged) =>
                /\ merged.t = "dict"
                /\ Keys(merged.v) = Keys(A) \cup Keys(B)
                /\ \A k \in Keys(A) \ Keys(B) : Get(merged.v, k) = Get(A, k)
                /\ \A k \in Keys(B) \ Keys(A) : Get(merged.v, k) = Get(B, k)
                /\ \A k \in both :
                      LET x == Get(A, k)
                          y == Get(B, k)
                          r == Get(merged.v, k)
                      IN  CASE x.t = "dict" -> r = deep_update(x, <<y>>)
                            [] x.t = "list" ->
                                  /\ r.t = "list"
                                  /\ Len(r.v) = Len(y.v)
                                  /\ \A j \in 1..Len(y.v) :
                                        r.v[j] = deep_update(x.v[j], <<y.v[j]>>)
                            [] OTHER -> r = y

\* C4's case: a returned merge with a key only in B and a key whose two
\* mappings have different keys.
C4_Witness ==
    /\ MergeDone /\ OneSource /\ ~IsError(merged)
    /\ Keys(mappings[1].v) \ Keys(dest.v) # {}
    /\ \E k \in Keys(dest.v) \cap Keys(mappings[1].v) :
          /\ Get(dest.v, k).t = "dict" /\ Get(mappings[1].v, k).t = "dict"
          /\ Keys(Get(dest.v, k).v) # Keys(Get(mappings[1].v, k).v)
          /\ Keys(Get(dest.v, k).v) # {}
          /\ Keys(Get(mappings[1].v, k).v) # {}

\* C5 as stated: when the loop comes to a key with lists of equal length on
\* both sides, no error is raised and the key takes the list of that length
\* whose i-th element is the merge of the two i-th elements, be they
\* mappings, scalars or nulls.
C5_EqualListsMergeElementwise ==
    MergeDone =>
        \A p \in Steps :
            (/\ KeyOnBothSides(p)
             /\ StepOld(p).t = "list" /\ StepValue(p).t = "list"
             /\ Len(StepOld(p).v) = Len(StepValue(p).v))
            => LET r == update_key(AccBefore(p[1], p[2]), StepKey(p), StepValue(p))
               IN  /\ ~IsError(r)
                   /\ Get(r.v, StepKey(p)).t = "list"
                   /\ Len(Get(r.v, StepKey(p)).v) = Len(StepValue(p).v)
                   /\ \A j \in 1..Len(StepValue(p).v) :
                         Get(r.v, StepKey(p)).v[j]
                             = ElementMerge(StepOld(p).v[j], StepValue(p).v[j])

\* The nested deep_update calls the loop makes at position p, in order.
NestedCalls(p) ==
    LET x == StepOld(p)
        y == StepValue(p)
    IN  IF x.t = "dict" /\ y.t = "dict" THEN << <<x, y>> >>
        ELSE IF x.t = "list" /\ y.t = "list" /\ Len(x.v) = Len(y.v)
        THEN [j \in 1..Len(y.v) |-> <<x.v[j], y.v[j]>>]
        ELSE <<>>
NestedResult(c) == deep_update(c[1], <<c[2]>>)

\* C6: when the loop comes to a key with lists of different lengths on both
\* sides, the call raises the TypeError of the length check; and when a
\* nested merge (of a mapping value, of a list element) raises it, the whole
\* call raises that error: no merged result is returned.
C6_LengthMismatchRaises ==
    MergeDone =>
        \A p \in Steps :
            KeyOnBothSides(p) =>
                /\ (/\ StepOld(p).t = "list" /\ StepValue(p).t = "list"
                    /\ Len(StepOld(p).v) # Len(StepValue(p).v))
                   => merged = LengthMismatch(StepKey(p), Len(StepOld(p).v),
                                              Len(StepValue(p).v))
                /\ \A j \in DOMAIN NestedCalls(p) :
                      (/\ \A h \in 1..(j - 1) : ~IsError(NestedResult(NestedCalls(p)[h]))
                       /\ IsError(NestedResult(NestedCalls(p)[j]))
                       /\ NestedResult(NestedCalls(p)[j]).why = "length")
                      => merged = NestedResult(NestedCalls(p)[j])

\* C6's case: lists of different lengths two levels down (in a mapping that
\* is a list element) have aborted the call.
C6_Witness ==
    /\ MergeDone /\ OneSource
    /\ IsError(merged) /\ merged.why = "length"
    /\ HasKey(dest.v, "a") /\ HasKey(mappings[1].v, "a")
    /\ Get(dest.v, "a").t = "list" /\ Get(mappings[1].v, "a").t = "list"
    /\ Len(Get(dest.v, "a").v) = Len(Get(mappings[1].v, "a").v)

\* C7: when the loop comes to a key that the accumulated result holds with
\* a value of another runtime type than the source's, the call raises the
\* TypeError naming the key and the two types; that error is never raised
\* for two values of the same type.
C7_TypeMismatchRaises ==
    MergeDone =>
        /\ \A p \in Steps :
              (KeyOnBothSides(p) /\ StepOld(p).t # StepValue(p).t)
              => merged = TypeMismatch(StepKey(p), StepOld(p).t, StepValue(p).t)
        /\ (IsError(merged) /\ merged.why = "type") => merged.dst # merged.src
        /\ \A p \in Steps :
              (KeyOnBothSides(p) /\ StepOld(p).t = StepValue(p).t)
              => LET r == update_key(AccBefore(p[1], p[2]), StepKey(p), StepValue(p))
                 IN  r # TypeMismatch(StepKey(p), StepOld(p).t, StepValue(p).t)

\* C7's case: a later source mapping has brought a value of another type
\* for a key the accumulated result took from an earlier one.
C7_Witness ==
    /\ MergeDone /\ Len(mappings) = 2
    /\ IsError(merged) /\ merged.why = "type"
    /\ ~IsError(deep_update(dest, <<mappings[1]>>))
    /\ ~HasKey(dest.v, merged.key)

\* ------------------------------------------------- claims on obj_to_dict

DumpDone == dumped # Pending /\ obj # NoneV

\* C1: a field explicitly set to null is in obj_to_dict's output under its
\* wire name, mapped to null; a field never set whose default is null is
\* not in the output.
C1_ExplicitNullKept ==
    DumpDone =>
        /\ dumped.t = "dict"
        /\ \A i \in 1..Len(obj.v) :
              LET f == obj.v[i]
              IN  /\ (f.set /\ f.val = NoneV)
                     => (HasKey(dumped.v, f.alias) /\ Get(dumped.v, f.alias) = NoneV)
                  /\ (~f.set /\ f.val = NoneV) => ~HasKey(dumped.v, f.alias)

\* C1's case: an instance with a field set to null and another left unset
\* has been converted.
C1_Witness ==
    /\ DumpDone
    /\ \E i, j \in 1..Len(obj.v) :
          /\ obj.v[i].set /\ obj.v[i].val = NoneV
          /\ ~obj.v[j].set /\ obj.v[j].val = NoneV
          /\ HasKey(dumped.v, obj.v[i].alias)

\* C2: a field never set whose default is not null is in obj_to_dict's
\* output under its wire name with the default, also when no field is set.
C2_DefaultsKept ==
    DumpDone =>
        /\ dumped.t = "dict"
        /\ \A i \in 1..Len(obj.v) :
              LET f == obj.v[i]
              IN  (~f.set /\ f.val # NoneV)
                  => (HasKey(dumped.v, f.alias) /\ Get(dumped.v, f.alias) = f.val)

\* C2's case: an instance with no field set has been converted to its
\* discriminator alone.
C2_Witness ==
    /\ DumpDone
    /\ \A i \in 1..Len(obj.v) : ~obj.v[i].set
    /\ dumped.t = "dict" /\ Keys(dumped.v) = {"$type"}

RECURSIVE ThreeStateRule(_, _)

\* `out` is what the three-state rule makes of `x`: of an instance, the
\* mapping of its set or non-null fields, each converted by the rule; of a
\* sequence, the sequence of its converted elements, as many and in order.
ThreeStateRule(out, x) ==
    CASE x.t = "model" ->
           /\ out.t = "dict"
           /\ \A i \in 1..Len(x.v) :
                 IF x.v[i].set \/ x.v[i].val # NoneV
                 THEN /\ HasKey(out.v, x.v[i].alias)
                      /\ ThreeStateRule(Get(out.v, x.v[i].alias), x.v[i].val)
                 ELSE ~HasKey(out.v, x.v[i].alias)
      [] x.t \in {"list", "tuple"} ->
           /\ out.t \in {"list", "tuple"}
           /\ Len(out.v) = Len(x.v)
           /\ \A i \in 1..Len(x.v) : ThreeStateRule(out.v[i], x.v[i])
      [] OTHER -> out = x

\* C3 as stated: obj_to_dict applies the three-state rule in every nested
\* instance and in every element of every sequence, given as a list or as a
\* tuple, and keeps the number and the order of the elements.
C3_RuleAppliedRecursively == DumpDone => ThreeStateRule(dumped, obj)

\* ---------------------------------------- claims on model_to_field_names

FieldsDone == fieldNames # Pending

\* The schema has none of the keys that lead to a model: a scalar field.
IsScalar(schema) ==
    \/ schema.k = "plain"
    \/ schema.k = "anyOf" /\ \A i \in 1..Len(schema.of) : schema.of[i].k = "plain"

RECURSIVE Refs(_)
RECURSIVE ConcatRefs(_, _)
\* The entity classes a field's type refers to, in order.
Refs(schema) ==
    CASE schema.k = "$ref" -> <<schema.ref>>
      [] schema.k = "array" -> Refs(schema.items)
      [] schema.k = "anyOf" -> ConcatRefs(schema.of, 1)
      [] OTHER -> <<>>
ConcatRefs(subs, n) ==
    IF n > Len(subs) THEN <<>> ELSE Refs(subs[n]) \o ConcatRefs(subs, n + 1)

RECURSIVE OnlyScalarsAndReferences(_)
\* Every field of the class is a scalar or refers to one entity class of
\* which the same holds.
OnlyScalarsAndReferences(cls) ==
    \A i \in 1..Len(Properties(cls)) :
        LET schema == Properties(cls)[i][2]
        IN  \/ IsScalar(schema)
            \/ Len(Refs(schema)) = 1 /\ OnlyScalarsAndReferences(Refs(schema)[1])

RECURSIVE FieldExpression(_)
\* The field expression of such a class, from its declaration: the wire
\* names in declaration order, a reference as name(expression of the class).
FieldExpression(cls) ==
    LET props == Properties(cls)
        Item(i) == IF IsScalar(props[i][2]) THEN props[i][1]
                   ELSE props[i][1] \o "(" \o FieldExpression(Refs(props[i][2])[1]) \o ")"
        Joined[n \in 0..Len(props)] ==
            IF n = 0 THEN ""
            ELSE IF n = 1 THEN Item(1)
            ELSE Joined[n - 1] \o "," \o Item(n)
    IN  Joined[Len(props)]

\* C8: for one entity type, model_to_field_names gives the declared fields
\* in declaration order, comma-joined, under their wire names: a field with
\* an empty sub-tree as the bare name, a field referring to an entity as
\* name(...) holding that entity's fields by the same rule.
C8_SingleTypeExpression ==
    (FieldsDone /\ model.form = "A" /\ Properties(model.members[1]) # <<>>
        /\ OnlyScalarsAndReferences(model.members[1]))
    => fieldNames = StrV(FieldExpression(model.members[1]))

\* C8's case: the expression of a class whose field refers to an entity
\* whose field refers to an entity.
C8_Witness ==
    /\ FieldsDone /\ model.form = "A"
    /\ fieldNames = StrV("field($type,fieldType($type,id))")

RECURSIVE FirstAppearance(_)
\* The names of the sequence, each once, in the order of first appearance.
FirstAppearance(names) ==
    IF names = <<>> THEN <<>>
    ELSE LET front == FirstAppearance(SubSeq(names, 1, Len(names) - 1))
             last == names[Len(names)]
         IN  IF \E i \in 1..Len(front) : front[i] = last THEN front
             ELSE Append(front, last)

RECURSIVE ConcatKeys(_, _)
\* The keys of the trees from the n-th on, in order.
ConcatKeys(trees, n) ==
    IF n > Len(trees) THEN <<>>
    ELSE [i \in 1..Len(trees[n].v) |-> trees[n].v[i][1]] \o ConcatKeys(trees, n + 1)

RECURSIVE DeepUnion(_, _)
\* `tree` is the deep union of `trees`: it has every name of any of them
\* once, in the order of first appearance, and under each name the deep
\* union of the sub-trees the name has in them.
DeepUnion(tree, trees) ==
    /\ tree.t = "dict"
    /\ [i \in 1..Len(tree.v) |-> tree.v[i][1]] = FirstAppearance(ConcatKeys(trees, 1))
    /\ \A k \in Keys(tree.v) :
          DeepUnion(Get(tree.v, k),
                    LET having == SelectSeq(trees, LAMBDA tr : HasKey(tr.v, k))
                    IN  [i \in 1..Len(having) |-> Get(having[i].v, k)])

\* The trees of the classes, each derived on its own.
MemberTrees(classes) == [i \in 1..Len(classes) |-> schema_to_fields(classes[i])]

\* C9: the field tree derived for a union of entity types is the deep
\* union of the members' trees, for a union given as the input, declared as
\* the type of a field, or as the element type of a sequence field; scalar
\* and null members add no field.
C9_UnionIsDeepUnion ==
    (FieldsDone /\ model.form \in {"A", "A | B", "Union[A | B]"}) =>
        /\ DeepUnion(fieldsDict, MemberTrees(model.members))
        /\ \A c \in ModelClasses :
              \A i \in 1..Len(Properties(c)) :
                  model.members = <<c>> =>
                      DeepUnion(Get(fieldsDict.v, Properties(c)[i][1]),
                                MemberTrees(Refs(Properties(c)[i][2])))
        /\ fieldNames = csv_or_none(fieldsDict)

\* C9's case: a union whose members share a name with different sub-trees.
C9_Witness ==
    /\ FieldsDone /\ model.form = "A | B"
    /\ model.members = <<"PeriodIssueCustomField", "MultiGroupIssueCustomField">>
    /\ fieldNames.t = "str"
    /\ Get(fieldsDict.v, "value")
           = DictV(<< <<"$type", DictV(<<>>)>>, <<"id", DictV(<<>>)>>,
                      <<"minutes", DictV(<<>>)>>, <<"presentation", DictV(<<>>)>>,
                      <<"name", DictV(<<>>)>>, <<"ringId", DictV(<<>>)>> >>)

\* C10 as stated: however the union is written (A | B, Union[A | B],
\* Annotated[A | B, Field(discriminator="type")]), model_to_field_names
\* returns the same string, the merged field expression of the members.
C10_SameStringForEveryForm ==
    (FieldsDone /\ model.form \in UnionForms) =>
        /\ fieldNames.t = "str"
        /\ fieldNames = model_to_field_names(PipeUnion(model.members))

\* A union input in a form model_to_field_names takes apart into its members.
UnionGiven == FieldsDone /\ model.form \in {"A | B", "Union[A | B]"}

\* The sub-trees the name has in the trees, in order.
SubTrees(trees, name) ==
    LET having == SelectSeq(trees, LAMBDA tr : HasKey(tr.v, name))
    IN  [i \in 1..Len(having) |-> Get(having[i].v, name)]

\* The names that are a leaf in one of the trees and a non-empty sub-tree
\* in another.
ClashingNames(trees) ==
    {name \in UNION {Keys(trees[i].v) : i \in 1..Len(trees)} :
        LET subs == SubTrees(trees, name)
        IN  /\ \E i \in 1..Len(subs) : subs[i] = DictV(<<>>)
            /\ \E i \in 1..Len(subs) : subs[i] # DictV(<<>>)}

\* C11 as stated: merging the members' field trees fails with an error when
\* a field name is a leaf in one tree and a non-empty sub-tree in another.
C11_LeafAgainstSubTreeFails ==
    UnionGiven =>
        LET trees == MemberTrees(model.members)
        IN  ClashingNames(trees) # {} => IsError(fieldsDict) /\ IsError(fieldNames)

\* C11 amended: such a merge raises nothing; the merged tree holds under the
\* name the deep union of the non-empty sub-trees (the leaf adds no name),
\* and the field is emitted as name(...).
C11_LeafAgainstSubTreeMerges ==
    UnionGiven =>
        LET trees == MemberTrees(model.members)
            clashing == ClashingNames(trees)
        IN  clashing # {} =>
              /\ fieldsDict.t = "dict"
              /\ fieldNames.t = "str"
              /\ \A name \in clashing :
                    /\ Get(fieldsDict.v, name) # DictV(<<>>)
                    /\ DeepUnion(Get(fieldsDict.v, name),
                                 SelectSeq(SubTrees(trees, name),
                                           LAMBDA tr : tr # DictV(<<>>)))

\* C11's case: value is a scalar in SimpleIssueCustomField and a PeriodValue
\* in PeriodIssueCustomField (both members of IssueCustomFieldType).
C11_Witness ==
    /\ UnionGiven
    /\ model.members = <<"SimpleIssueCustomField", "PeriodIssueCustomField">>
    /\ "value" \in ClashingNames(MemberTrees(model.members))
    /\ fieldNames = StrV("id,name,projectCustomField(field($type,fieldType($type,id)),$type),"
                         \o "$type,value($type,id,minutes,presentation)")

\* C12: model_to_field_names returns None, not an empty string, exactly
\* when the merged field tree has no fields, and a non-empty string
\* otherwise.
C12_NoneIffNoFields ==
    (FieldsDone /\ fieldsDict.t = "dict") =>
        /\ (fieldNames = NoneV) <=> (fieldsDict.v = <<>>)
        /\ fieldNames # NoneV => fieldNames.t = "str" /\ fieldNames.v # ""

\* C12's case: a class that declares no field.
C12_Witness ==
    /\ FieldsDone /\ model.members = <<"BaseModel">>
    /\ fieldsDict = DictV(<<>>) /\ fieldNames = NoneV


\* ---------------------------------------------------- claims on decoding

DecodeDone == decoded # Pending
\* One mapping decoded to the variant set, to an entity class.
ToUnion == target = "IssueCustomFieldType"
ToEntity == target \in EntityTargets
TagOf(mapping) == Get(mapping.v, "$type").v
Members == {IssueCustomFieldType[i] : i \in 1..Len(IssueCustomFieldType)}
\* The instance, or the kind of exception raised.
Outcome(x) == IF x.t = "model" THEN x ELSE [t |-> x.t]
\* What the response holds under a wire name, Unset if nothing.
Sent(name) == IF HasKey(response.v, name) THEN Get(response.v, name) ELSE Unset

\* C13 as stated: decoding a mapping to the variant set selects exactly the
\* member whose literal discriminator equals the mapping's `$type`, so the
\* outcome is that of decoding the mapping to that member alone, an
\* instance of it or a decode error; when `$type` matches no member,
\* decoding raises a decode error.
C13_OnlyTaggedMemberDecodes ==
    (DecodeDone /\ ToUnion) =>
        IF TagOf(response) \in Members
        THEN Outcome(decoded)
                = Outcome(validate_python(model_schema(TagOf(response)), response, unionMode))
        ELSE IsLineErrors(decoded)

\* A flexible-value field is decoded: a SimpleIssueCustomField, through the
\* variant set or on its own.
FlexibleField ==
    /\ DecodeDone /\ (ToUnion \/ target = "SimpleIssueCustomField")
    /\ TagOf(response) = "SimpleIssueCustomField"
\* The owning object carries the "date and time" marker.
Marked ==
    Sent("projectCustomField")
        = WireProjectCustomField(WireCustomField(WireFieldType(StrV("date and time"))))
\* The instant v milliseconds after the epoch.
InstantOf(v) == DateTimeV(DayOf(v), MsOf(v), 0)
Decoded(cls) == decoded.t = "model" /\ decoded.cls = cls

\* C14 as stated: with the "date and time" marker on the owning object, an
\* integer wire value v decodes to the UTC timestamp at v milliseconds since
\* the Unix epoch, and a value that is already a timestamp is returned
\* unchanged.
C14_IntegerDecodesToItsInstant ==
    (FlexibleField /\ Marked) =>
        /\ Sent("value").t = "int" =>
              /\ Decoded("SimpleIssueCustomField")
              /\ getattr(decoded, "value") = InstantOf(Sent("value"))
        /\ Sent("value").t = "datetime" =>
              /\ Decoded("SimpleIssueCustomField")
              /\ getattr(decoded, "value") = Sent("value")

\* C15 as stated: with the "date and time" marker on the owning object, a
\* non-null raw value that is neither a timestamp nor an integer makes the
\* decoding of the owning object fail with a type-mismatch error; it never
\* succeeds with the raw value stored in the field.
C15_OtherValueFailsToDecode ==
    (FlexibleField /\ Marked /\ Sent("value").t \notin {"unset", "NoneType", "int", "datetime"}) =>
        IsLineErrors(decoded)

\* The owning object carries no "date and time" marker: its
\* projectCustomField is null or left out, or is cut short at `field`, at
\* `fieldType` or at `id`, or names another type.
Unmarked ==
    \/ Sent("projectCustomField") \in {Unset} \cup CutProjectCustomFields
                                       \cup UnmarkedProjectCustomFields
    \/ /\ Sent("projectCustomField") \in WholeProjectCustomFields
       /\ ~Marked

\* C16 as stated: without the marker a raw string, integer or float is
\* stored unchanged with its JSON type, and decoding raises no error.
C16_UnmarkedScalarStoredUnchanged ==
    (FlexibleField /\ Unmarked /\ Sent("value").t \in {"str", "int", "float"}) =>
        /\ Decoded("SimpleIssueCustomField")
        /\ getattr(decoded, "value") = Sent("value")

\* A calendar-date field is decoded on its own: a DateIssueCustomField,
\* whose projectCustomField is one of ProjectCustomFieldType or none.
DateField ==
    /\ DecodeDone /\ target = "DateIssueCustomField"
    /\ TagOf(response) = "DateIssueCustomField"
    /\ Sent("projectCustomField") \notin UnknownProjectCustomFields
\* The UTC calendar date of the instant v milliseconds after the epoch less
\* 12 hours.
DateOfLessTwelveHours(v) ==
    DateV(IF MsOf(v) >= TwelveHours THEN DayOf(v) ELSE DayOf(v) - 1)

\* C17 as stated: for every integer wire value v given to a calendar-date
\* field, decoding succeeds and yields the UTC calendar date of the instant
\* v milliseconds since the epoch minus 12 hours; a value that is already a
\* date is accepted unchanged.
C17_EveryIntegerDecodesToADate ==
    DateField =>
        /\ Sent("value").t = "int" =>
              /\ Decoded("DateIssueCustomField")
              /\ getattr(decoded, "value") = DateOfLessTwelveHours(Sent("value"))
        /\ Sent("value").t = "date" =>
              /\ Decoded("DateIssueCustomField")
              /\ getattr(decoded, "value") = Sent("value")

\* A mapping tagged DateIssueCustomField is decoded, on its own or through
\* the variant set with a projectCustomField that is whole, unmarked or
\* left out.
DateFieldDecoded ==
    \/ DateField
    \/ /\ DecodeDone /\ ToUnion /\ TagOf(response) = "DateIssueCustomField"
       /\ Sent("projectCustomField") \in {Unset} \cup WholeProjectCustomFields
                                          \cup UnmarkedProjectCustomFields

\* C18: for every calendar date d, decoding for a calendar-date field the
\* integer that encoding d produces (the milliseconds since the epoch of d
\* at 12:00:00 UTC) yields exactly d; 1645099200000 decodes to 2022-02-17.
C18_DateRoundTrip ==
    DateFieldDecoded =>
        /\ \A d \in Dates :
              Sent("value") = default(d) =>
                  /\ Decoded("DateIssueCustomField")
                  /\ getattr(decoded, "value") = d
        /\ Sent("value") = MkInt(19040, 43200000) =>
              /\ Decoded("DateIssueCustomField")
              /\ getattr(decoded, "value") = date(2022, 2, 17)

C18_Witness ==
    /\ DateField
    /\ Sent("value") = default(date(2022, 2, 17))
    /\ Decoded("DateIssueCustomField")
    /\ getattr(decoded, "value") = date(2022, 2, 17)

\* The projectCustomField of the response is malformed: a mapping whose
\* `$type` names no member of ProjectCustomFieldType.
MalformedProjectCustomField(mapping) ==
    /\ HasKey(mapping.v, "projectCustomField")
    /\ Get(mapping.v, "projectCustomField") \in UnknownProjectCustomFields

\* C27 as stated: decoding a mapping to an entity whose value is coerced
\* under the marker never raises the RuntimeError of the validator, and a
\* malformed projectCustomField gives a decode error.
C27_NoRuntimeError ==
    (DecodeDone /\ target \in EntityTargets \cup {"IssueCustomFieldType"}) =>
        /\ decoded.t # "RuntimeError"
        /\ MalformedProjectCustomField(response) => decoded.t = "ValidationError"

\* ------------------------------------- claims on deep_update on objects

UpdateDone == updated # Pending
\* The objects that can be reached from what is held.
RECURSIVE Reach(_, _)
Reach(h, c) ==
    IF c.t # "ref" THEN {}
    ELSE {c.a} \cup UNION {Reach(h, IF h[c.a].t = "dict" THEN h[c.a].v[i][2] ELSE h[c.a].v[i]) :
                              i \in 1..Len(h[c.a].v)}
FromMappings == UNION {Reach(heap, held.v[i + 1]) : i \in 1..Len(mappings)}

\* C28: after a call deep_update(dest, m1, ..., mn), whether it has
\* returned or raised, dest and every mi, read with all the mappings and
\* lists they hold, are equal to what they were before the call.
C28_ArgumentsKept ==
    UpdateDone =>
        /\ value_of(heap, held.v[1]) = dest
        /\ \A i \in 1..Len(mappings) : value_of(heap, held.v[i + 1]) = mappings[i]
\* A call has returned a result that differs from dest and holds an object
\* that one of the mappings holds too.
C28_Witness ==
    /\ UpdateDone /\ ~IsError(updated)
    /\ value_of(heap, updated) # dest
    /\ Reach(heap, updated) \cap FromMappings # {}

\* -------------------------------------- claims on the calls of the walk

Root == model.members[1]
\* The classes of the schema: the model's and those it refers to, at any
\* depth; the schema is a DAG when none of them reaches itself.
SchemaClasses == {Root} \cup Reached(definitions, Root)
IsDAG == \A c \in SchemaClasses : c \notin Reached(definitions, c)
Walking == definitions # <<>>

\* C30: for a model whose schema is a DAG of references the walk of
\* model_to_fields comes to its end and returns; no call looks at the
\* classes walked before or at the depth, so with a schema that is no DAG it
\* never returns.
C30_DAGTerminates ==
    /\ (Walking /\ IsDAG) ~> (walked = Returned)
    /\ []((Walking /\ ~IsDAG) => walked # Returned)
\* The walk of a DAG has returned: A refers to B and to C, and B to C, so
\* the schema of C has been walked twice.
C30_Witness ==
    /\ Walking /\ IsDAG /\ walked = Returned
    /\ DOMAIN definitions = WalkedClasses
    /\ Refers(definitions, "A") = {"B", "C"}
    /\ Refers(definitions, "B") = {"C"}

\* --------------------------------------------- claims on custom_json_dumps

EncodeDone == encoded # Pending
\* The integer of the milliseconds between the epoch and the instant, the
\* microseconds below a millisecond dropped.
MillisecondsOf(dt) == MkInt(dt.day, dt.ms)
\* The values of a payload that json does not write itself: the payload,
\* or what it holds at any depth.
RECURSIVE Held(_)
Held(o) ==
    IF o.t \in {"list", "tuple"} THEN UNION {Held(o.v[i]) : i \in 1..Len(o.v)}
    ELSE IF o.t = "dict" THEN UNION {Held(o.v[i][2]) : i \in 1..Len(o.v)}
    ELSE {o}
RECURSIVE Replaced(_, _)
\* The payload with each datetime and each date replaced by the integer
\* `ints` gives for it.
Replaced(o, ints) ==
    IF o.t \in {"list", "tuple"}
    THEN [o EXCEPT !.v = [i \in 1..Len(o.v) |-> Replaced(o.v[i], ints)]]
    ELSE IF o.t = "dict"
    THEN [o EXCEPT !.v = [i \in 1..Len(o.v) |-> <<o.v[i][1], Replaced(o.v[i][2], ints)>>]]
    ELSE IF o \in DOMAIN ints THEN ints[o]
    ELSE o
\* Every datetime as its milliseconds since the epoch, every date as the
\* milliseconds of its noon.
EpochMilliseconds ==
    [x \in Datetimes \cup Dates |->
        IF x.t = "datetime" THEN MillisecondsOf(x) ELSE MkInt(x.day, TwelveHours)]
\* The payload holds nothing json cannot write after the replacement.
Writable(o) == \A x \in Held(o) : x.t \in {"datetime", "date", "NoneType", "int", "str", "bool"}

\* C19 as stated: custom_json_dumps encodes every datetime as the integer
\* number of milliseconds since the Unix epoch of that instant
\* (2021-02-09T14:03:11Z as 1612879391000), never by the noon rule of dates.
C19_DatetimeAsEpochMilliseconds ==
    (EncodeDone /\ Writable(payload) /\ \E x \in Held(payload) : x.t = "datetime") =>
        encoded = custom_json_dumps(Replaced(payload, EpochMilliseconds))

\* The text of a value json writes itself.
PlainText(x) ==
    CASE x.t = "NoneType" -> "null"
      [] x.t = "bool" -> IF x.v THEN "true" ELSE "false"
      [] x.t = "int" -> ToString(x.v)
      [] x.t = "str" -> "\"" \o x.v \o "\""

\* C20: custom_json_dumps writes every plain date as the integer of the
\* milliseconds since the epoch of that date at 12:00:00 UTC (2022-02-17 as
\* 1645099200000) wherever it occurs, at the top of a mapping, in nested
\* mappings and in the elements of sequences; ints, strings and null are
\* written unchanged.
C20_DateAsNoonMilliseconds ==
    (EncodeDone /\ Writable(payload) /\ \A x \in Held(payload) : x.t # "datetime") =>
        /\ encoded.t = "json"
        /\ encoded = custom_json_dumps(Replaced(payload, EpochMilliseconds))
        /\ payload = date(2022, 2, 17) => encoded = JsonText("1645099200000")
        /\ payload \in JsonLeaves => encoded = JsonText(PlainText(payload))
        /\ \A x \in JsonLeaves :
              payload = DictV(<< <<"a", ListV(<< DictV(<< <<"b", x>> >>) >>)>> >>)
                  => encoded = JsonText("{\"a\": [{\"b\": " \o PlainText(x) \o "}]}")

C20_Witness ==
    /\ EncodeDone
    /\ payload = DictV(<< <<"a", ListV(<< DictV(<< <<"b", date(2022, 2, 17)>> >>) >>)>> >>)
    /\ encoded = JsonText("{\"a\": [{\"b\": 1645099200000}]}")

\* The payload with every float that is not finite taken for 1.5.
RECURSIVE Finite(_)
Finite(o) ==
    IF o.t \in {"list", "tuple"}
    THEN [o EXCEPT !.v = [i \in 1..Len(o.v) |-> Finite(o.v[i])]]
    ELSE IF o.t = "dict"
    THEN [o EXCEPT !.v = [i \in 1..Len(o.v) |-> <<o.v[i][1], Finite(o.v[i][2])>>]]
    ELSE IF o \in NonFiniteFloats THEN FloatV(1500000)
    ELSE o

\* C21: custom_json_dumps raises, and returns no text, whenever the value
\* holds a float that is nan, inf or -inf at any depth; the error is the
\* ValueError of allow_nan=False unless another value raised first, and
\* with finite floats in their place the same payload is written.
C21_NonFiniteFloatRaises ==
    (EncodeDone /\ Held(payload) \cap NonFiniteFloats # {}) =>
        /\ IsRaised(encoded)
        /\ encoded.t # "json"
        /\ custom_json_dumps(Finite(payload)).t = "json" => encoded = OutOfRangeFloat
        /\ payload \in NonFiniteFloats => encoded = OutOfRangeFloat
C21_Witness ==
    /\ EncodeDone
    /\ payload = DictV(<< <<"a", ListV(<< DictV(<< <<"b", SpecialFloat("-inf")>> >>) >>)>> >>)
    /\ encoded = OutOfRangeFloat
    /\ custom_json_dumps(Finite(payload)) = JsonText("{\"a\": [{\"b\": 1.5}]}")

\* C24: obj_to_dict(None) returns None: nothing is dumped and nothing is
\* merged, so nothing is raised.
C24_NoneGivesNone == (dumped # Pending /\ obj = NoneV) => dumped = NoneV
C24_Witness == dumped # Pending /\ obj = NoneV /\ dumped = NoneV /\ ~IsError(dumped)

\* ------------------------------------------ claims on the two projections

RECURSIVE HoldsEntities(_)
\* Every sequence the instance holds, at any depth, holds instances only.
HoldsEntities(x) ==
    CASE x.t = "model" -> \A i \in 1..Len(x.v) : HoldsEntities(x.v[i].val)
      [] x.t \in {"list", "tuple"} ->
           \A i \in 1..Len(x.v) : x.v[i].t = "model" /\ HoldsEntities(x.v[i])
      [] OTHER -> TRUE
RECURSIVE Agree(_, _)
\* Two dumps are of one type; two mappings agree under every key both have,
\* two sequences are as long as one another and agree element by element.
Agree(x, y) ==
    /\ x.t = y.t
    /\ x.t = "dict" =>
          \A k \in Keys(x.v) \cap Keys(y.v) : Agree(Get(x.v, k), Get(y.v, k))
    /\ x.t \in {"list", "tuple"} =>
          /\ Len(x.v) = Len(y.v)
          /\ \A i \in 1..Len(x.v) : Agree(x.v[i], y.v[i])
MismatchRaised(x) == x.t = "TypeError" /\ x.why \in {"type", "length"}

\* C29: for an instance whose sequences hold instances, the dump of the set
\* fields and the dump of the fields that are not None agree on the type of
\* the value and on the length of a sequence under every key both have, at
\* every depth, and obj_to_dict raises neither the TypeError of the type
\* check nor that of the length check.
C29_ProjectionsAgree ==
    (DumpDone /\ HoldsEntities(obj)) =>
        /\ Agree(model_dump(obj, "unset", tupleDump), model_dump(obj, "none", tupleDump))
        /\ ~MismatchRaised(dumped)
\* An instance with a sequence of two instances, given as a tuple, one of
\* them with a field set to None: the two dumps have the key of the
\* sequence, and the dumps of the element differ in their keys.
C29_Witness ==
    /\ DumpDone /\ HoldsEntities(obj) /\ ~IsError(dumped)
    /\ \E i \in 1..Len(obj.v) :
          /\ obj.v[i].set /\ obj.v[i].val.t = "tuple" /\ Len(obj.v[i].val.v) = 2
          /\ \E j \in 1..2 : \E k \in 1..Len(obj.v[i].val.v[j].v) :
                obj.v[i].val.v[j].v[k].set /\ obj.v[i].val.v[j].v[k].val = NoneV
    /\ tupleDump = "tuple"
    /\ model_dump(obj, "unset", tupleDump) # model_dump(obj, "none", tupleDump)

\* ------------------------------------------------ claims on the round trip

RoundTripDone == decoded # Pending
RECURSIVE Equal(_, _)
\* a == b as Python has it: two instances are equal when they are of one
\* class and hold equal values (model_fields_set is not compared), two
\* sequences when they are of one type and equal element by element.
Equal(a, b) ==
    IF a.t # b.t THEN FALSE
    ELSE IF a.t = "model"
    THEN /\ a.cls = b.cls
         /\ \A i \in 1..Len(a.v) : Equal(a.v[i].val, b.v[i].val)
    ELSE IF a.t \in {"list", "tuple"}
    THEN Len(a.v) = Len(b.v) /\ \A i \in 1..Len(a.v) : Equal(a.v[i], b.v[i])
    ELSE a = b

\* C22 as stated: for every entity instance with no unset field, decoding
\* obj_to_dict(instance) with the type of the instance gives an instance
\* equal to it.
C22_RoundTrip == RoundTripDone => Equal(decoded, obj)

\* --------------------------------------------- claims on repeated calls

OperationDone == returned # Pending
\* The transport answered with a response, which _send_request was given.
Answered == OperationDone /\ reply.t = "response" /\ requests # <<>>
\* The status of a client error or of a server error.
IsErrorStatus(status_code) == status_code \div 100 \in {4, 5}

\* C25: _send_request gives for a response exactly one of, in this order:
\* YouTrackNotFound for 404, YouTrackUnauthorized for 401,
\* YouTrackException for any other error status; else None for an empty
\* body, the parsed body for a JSON body, YouTrackException for any other.
C25_ResponseClassified ==
    Answered =>
        /\ reply.status_code = 404 => received = YouTrackNotFound
        /\ reply.status_code = 401 => received = YouTrackUnauthorized
        /\ (IsErrorStatus(reply.status_code) /\ reply.status_code \notin {401, 404}) =>
                received.t = "YouTrackException"
        /\ ~IsErrorStatus(reply.status_code) =>
              /\ reply.content = "" => received = NoneV
              /\ reply.content = "null" => received = NoneV
              /\ reply.content = "{}" => received = DictV(<<>>)
              /\ reply.content = "[]" => received = ListV(<<>>)
              /\ reply.content = "{\"id\": \"2-1\", \"$type\": \"Issue\"}" =>
                    received = DictV(<< <<"id", StrV("2-1")>>, <<"$type", StrV("Issue")>> >>)
              /\ reply.content \in {"<html>", "{"} => received.t = "YouTrackException"
              /\ ~IsException(received) \/ received.t = "YouTrackException"
C25_Witness ==
    /\ Answered
    /\ operation.name = "get_issue"
    /\ reply = Response(200, "{\"id\": \"2-1\", \"$type\": \"Issue\"}")
    /\ received = DictV(<< <<"id", StrV("2-1")>>, <<"$type", StrV("Issue")>> >>)
    /\ returned.t = "model"

\* The operation makes no call of the transport at all, or the body of its
\* request cannot be written.
MakesNoRequest ==
    \/ operation.name = "get_absolute_url"
    \/ operation.data # NoneV /\ IsException(obj_to_json(operation.data, tupleDump))

====
